---- MODULE Spec2Model ----
(***************************************************************************)
(* Verification model of the solana_volumebot copy-trading bots.           *)
(*                                                                         *)
(*  - confirmTxn, the polling transaction confirmation of both bots        *)
(*    (specification SpecConfirm);                                         *)
(*  - the copy-trading orchestrator: websocket message handler, buyToken   *)
(*    and sellToken retry loops and the runtime session state              *)
(*    (specifications Spec and FairSpec);                                  *)
(*  - the session life cycle: token refresh, websocket connect loop and    *)
(*    its close handler (specification SpecConn);                          *)
(*  - the buy and sell operations of the four trading engines              *)
(*    (specification SpecEngine);                                          *)
(*  - fetchPairAddressFromRpc and the pool-state layouts it scans for      *)
(*    (specification SpecPair);                                            *)
(*  - the helpers taken one call at a time: tick-array start index and     *)
(*    inline bitmap test, the UInt128 codecs, the bonding-curve pricing,   *)
(*    the feed filter of the message handler, the keep-alive loop, the     *)
(*    instruction lists and swap instructions of the pool engines          *)
(*    (specification SpecCalc);                                            *)
(*  - the search for the next initialized tick array (specification        *)
(*    SpecSearch);                                                         *)
(*  - the orchestrator with one message handled at a time (specification   *)
(*    SpecSerial).                                                         *)
(***************************************************************************)
EXTENDS Integers, Sequences, FiniteSets, TLC

VARIABLES
    \* ---- confirmTxn (one call) ----
    ctImpl,        \* which of the two copies of confirmTxn runs
    ctMaxRetries,  \* argument maxRetries
    ctRetries,     \* local variable retries
    ctPc,          \* "loop" (while test), "sleep" (await setTimeout), "done"
    ctResult,      \* "none" while running, then "true" | "false" | "unknown" | "raised"
    ctHist,        \* outcomes of the lookups made so far, in order
    \* ---- orchestrator configuration (environment variables) ----
    allowRebuy,    \* ALLOW_REBUY
    maxBuyAttempts,\* MAX_BUY_ATTEMPTS
    maxSolSpend,   \* MAX_SOL_SPEND
    solIn,         \* SOL_IN
    \* ---- orchestrator runtime session state ----
    buyList,       \* addresses pushed by buyToken (only membership is ever read)
    spent,         \* cumulative spend
    \* ---- one record per in-flight 'message' handler ----
    hPc,           \* "idle" | "buySleep" | "buyCall" | "sellSleep" | "sellCall" | "done"
    hAddr,         \* address argument of buyToken / sellToken
    hAttempts,     \* local variable attempts of buyToken
    \* ---- observers (not read by any guard) ----
    hGated,        \* the handler's message arrived with spent >= maxSolSpend
    hSignal,       \* what the message asks for when its maker is tracked: "buy" | "sell" | "none"
    hCalls,        \* underlying buy calls made by the handler's run; for a sell run 0 or 1+
    hLast,         \* outcome of the run's latest finished underlying call
    hAdded,        \* amount the run has added to spent
    buyCalls,      \* underlying buy calls per address since process start: 0, 1 or 2+
    trueBuys,      \* underlying buys that returned true since process start
    msgCount,      \* messages handled so far
    \* ---- session life cycle (main, connect, refreshAccessToken) ----
    mainPc,        \* main's position: "refresh" | "waitClose" | "exited" | "returned"
    wsState,       \* the latest websocket: "none" | "connecting" | "open" | "closed"
    wsCount,       \* websockets created so far
    refreshing,    \* close handlers awaiting refreshAccessToken
    sleeping,      \* close handlers awaiting sleep(5000)
    terminated,    \* process.exit was called
    balanceLoops,  \* getCurrentBalance loops started by 'open' handlers
    refreshFails,  \* observer: refreshes that ended in a failure
    \* ---- one call of a trading-engine buy or sell ----
    eEngine,       \* "ammV4" | "cpmm" | "clmm" | "pump"
    eOp,           \* "buy" | "sell"
    ePct,          \* argument percentage (sell)
    ePc,           \* the step the call is at, "done" once it has ended
    eResult,       \* "pending", then "true" | "false" | "null" | "raised"
    ePool,         \* observer: outcome of pool-key / coin-data resolution
    ePoolEnv,      \* observer: what the RPC node and the decoders did during resolution
    eBalance,      \* observer: outcome of the wallet balance read
    eConfirm,      \* observer: outcome of the confirmation
    eBuilt,        \* observer: the swap instruction was built
    eSigned,       \* observer: a transaction was signed
    eSubmitted,    \* observer: a transaction was submitted
    \* ---- one call of fetchPairAddressFromRpc ----
    pProgram,      \* which pair helper made the call
    pMint,         \* argument tokenMint
    pPc,           \* "first" | "second" | "done"
    pScans,        \* the scans made so far: filter values and what came back
    pResult,       \* the returned list, "pending" | "raised" before / instead
    \* ---- one call of a pure helper (tick arrays, UInt128 codecs, pricing, feed filter) ----
    call           \* record: fn, the arguments, pc ("called" | "returned") and the result

ctVars == <<ctImpl, ctMaxRetries, ctRetries, ctPc, ctResult, ctHist>>

cfgVars == <<allowRebuy, maxBuyAttempts, maxSolSpend, solIn>>

orchVars == <<buyList, spent, hPc, hAddr, hAttempts,
              hGated, hSignal, hCalls, hLast, hAdded, buyCalls, trueBuys, msgCount>>

connVars == <<mainPc, wsState, wsCount, refreshing, sleeping, terminated,
              balanceLoops, refreshFails>>

engVars == <<eEngine, eOp, ePct, ePc, eResult, ePool, ePoolEnv, eBalance, eConfirm,
             eBuilt, eSigned, eSubmitted>>

pairVars == <<pProgram, pMint, pPc, pScans, pResult>>

calcVars == <<call>>

vars == <<ctVars, cfgVars, orchVars, connVars, engVars, pairVars, calcVars>>

\* no pure-helper call is being examined
NoCall == [fn |-> "none"]

(***************************************************************************)
(* Bounds                                                                  *)
(***************************************************************************)
MaxRetriesBound == 4

MaxMessages == 2

MaxBuyAttemptsBound == 1

MaxSockets == 3

MaxAccounts == 2

MaxSpendBound == 1

(***************************************************************************)
(* confirmTxn                                                              *)
(***************************************************************************)
Impls == {"raydium", "pumpfun"}

\* What one getTransaction call can produce, as far as confirmTxn looks at it:
\*   notFound      no transaction yet (null)
\*   success       transaction with meta, meta.err === null
\*   onChainError  transaction with meta, meta.err set
\*   noMeta        transaction returned without status metadata (meta null)
\*   rpcError      the call throws
LookupOutcomes == {"notFound", "success", "onChainError", "noMeta", "rpcError"}

\* Variant: the retry counter starts at 0.
InitialRetriesFromZero == 1 - 1

InitialRetries == 1

\* Variant: a transaction found with an on-chain error is polled again.
PollRaydiumRetryOnError(o) ==
    IF o = "success" THEN "true" ELSE "retry"

\* Body of the try/catch of the AMM-family bot's confirmTxn.
PollRaydium(o) ==
    IF o = "rpcError" THEN "retry"                    \* catch (error) { }
    ELSE IF o \in {"success", "onChainError"}         \* txnRes.value && txnRes.value.meta
         THEN IF o = "success" THEN "true"            \* meta.err === null
              ELSE "false"
         ELSE "retry"

\* Variant: the catch block reports a failed lookup as a failed transaction.
PollPumpfunFailOnRpcError(o) ==
    IF o = "rpcError" THEN "false"
    ELSE IF o = "success" THEN "true"
    ELSE IF o = "onChainError" THEN "false"
    ELSE "retry"

\* Body of the try/catch of the bonding-curve bot's confirmTxn.
PollPumpfun(o) ==
    IF o = "rpcError" THEN "retry"                    \* catch (error) { log }
    ELSE IF o # "notFound"                            \* if (txnRes)
         THEN IF o = "success" THEN "true"            \* meta && meta.err === null
              ELSE IF o = "onChainError" THEN "false" \* meta && meta.err
              ELSE "retry"
         ELSE "retry"

Poll(impl, o) == IF impl = "raydium" THEN PollRaydium(o) ELSE PollPumpfun(o)

\* Variant: the loop gives up one poll early.
KeepPollingOneLess(retries, maxRetries) == retries + 1 < maxRetries

\* while (retries < maxRetries)
KeepPolling(retries, maxRetries) == retries < maxRetries

\* A call of confirmTxn with the orchestrator at rest.
CtInit ==
    /\ ctImpl \in Impls
    /\ ctMaxRetries \in 0..MaxRetriesBound
    /\ ctRetries = InitialRetries
    /\ ctPc = "loop"
    /\ ctResult = "none"
    /\ ctHist = <<>>
    /\ allowRebuy = TRUE
    /\ maxBuyAttempts = 0
    /\ maxSolSpend = 0
    /\ solIn = 1
    /\ buyList = {}
    /\ spent = 0
    /\ hPc = [h \in {1, 2} |-> "idle"]
    /\ hAddr = [h \in {1, 2} |-> "mintA"]
    /\ hAttempts = [h \in {1, 2} |-> 0]
    /\ hGated = [h \in {1, 2} |-> FALSE]
    /\ hSignal = [h \in {1, 2} |-> "none"]
    /\ hCalls = [h \in {1, 2} |-> 0]
    /\ hLast = [h \in {1, 2} |-> "none"]
    /\ hAdded = [h \in {1, 2} |-> 0]
    /\ buyCalls = [a \in {"mintA", "mintB"} |-> 0]
    /\ trueBuys = 0
    /\ msgCount = 0
    \* the session is streaming on its first websocket
    /\ mainPc = "waitClose"
    /\ wsState = "open"
    /\ wsCount = 1
    /\ refreshing = 0
    /\ sleeping = 0
    /\ terminated = FALSE
    /\ balanceLoops = 1
    /\ refreshFails = 0
    \* no engine call is in progress
    /\ eEngine = "ammV4"
    /\ eOp = "buy"
    /\ ePct = 100
    /\ ePc = "done"
    /\ eResult = "false"
    /\ ePool = "unread"
    /\ ePoolEnv = "none"
    /\ eBalance = "unread"
    /\ eConfirm = "none"
    /\ eBuilt = FALSE
    /\ eSigned = FALSE
    /\ eSubmitted = FALSE
    \* no pair-address scan is in progress
    /\ pProgram = "ammV4"
    /\ pMint = "mintA"
    /\ pPc = "done"
    /\ pScans = <<>>
    /\ pResult = <<>>
    /\ call = NoCall

\* One iteration of the while loop up to its await: lookup, then return or retries++.
CtPoll ==
    /\ ctPc = "loop"
    /\ KeepPolling(ctRetries, ctMaxRetries)
    /\ \E o \in LookupOutcomes :
         LET r == Poll(ctImpl, o) IN
         /\ ctHist' = Append(ctHist, o)
         /\ IF r = "retry"
            THEN /\ ctRetries' = ctRetries + 1
                 /\ ctPc' = "sleep"
                 /\ ctResult' = ctResult
            ELSE /\ ctRetries' = ctRetries
                 /\ ctPc' = "done"
                 /\ ctResult' = r
    /\ UNCHANGED <<ctImpl, ctMaxRetries, cfgVars, calcVars, orchVars, connVars, engVars, pairVars>>

\* The retryInterval timer fires.
CtWake ==
    /\ ctPc = "sleep"
    /\ ctPc' = "loop"
    /\ UNCHANGED <<ctImpl, ctMaxRetries, ctRetries, ctResult, ctHist, cfgVars, calcVars, orchVars, connVars, engVars, pairVars>>

\* The while condition fails: return null.
CtTimeout ==
    /\ ctPc = "loop"
    /\ ~KeepPolling(ctRetries, ctMaxRetries)
    /\ ctPc' = "done"
    /\ ctResult' = "unknown"
    /\ UNCHANGED <<ctImpl, ctMaxRetries, ctRetries, ctHist, cfgVars, calcVars, orchVars, connVars, engVars, pairVars>>

CtNext == CtPoll \/ CtWake \/ CtTimeout

(***************************************************************************)
(* Copy-trading orchestrator                                               *)
(***************************************************************************)
\* Two 'message' handlers may be in flight at once; a finished one takes the next message.
Handlers == {1, 2}

Addresses == {"mintA", "mintB"}

SolInValues == {1, 2}

CallsCap == MaxBuyAttemptsBound + 2

\* The observers count up to a cap and stay there.
Bump(n) == IF n < CallsCap THEN n + 1 ELSE n

BumpTo(n, cap) == IF n < cap THEN n + 1 ELSE n

\* A feed message, reduced to what the handler reads from it:
\*   inText    the tracked-wallet pattern occurs somewhere in the text
\*   maker     the extracted maker_address: absent, a tracked wallet, another wallet
\*   protocol  the extracted protocol label
\*   type      the extracted transaction type
\*   addr      token_address (Pump V1) / pair_address (Raydium V4)
Messages ==
    { m \in [inText : BOOLEAN, maker : {"absent", "tracked", "other"},
             protocol : {"Pump V1", "Raydium V4", "other"},
             type : {"buy", "sell", "none"}, addr : Addresses] :
        m.maker = "tracked" => m.inText }

\* Results of the underlying buy: true, false, confirmTxn's null passed through
\* ("unknown"), or an exception.
BuyOutcomes == {"true", "false", "unknown", "raise"}

\* Results of the underlying sell: true, false, undefined ("noValue"), null, or an
\* exception.
SellOutcomes == {"true", "false", "noValue", "null", "raise"}

\* Variant: the gate opens again when spend equals the maximum.
SpendGateStrict(s, max) == s > max

\* if (spent >= maxSolSpend) { log; return; }
SpendGate(s, max) == s >= max

\* filterMessages(message): the regex matches or the result is false.
filterMessages(m) == m.inText

\* if (!maker_address || !maker_address.includes(trackWallets)) return;
MakerTracked(m) == m.maker = "tracked"

\* Variant: the commented-out 'Raydium V4' buy entry is wired.
DispatchRaydiumBuy(m) ==
    IF m.protocol \in {"Pump V1", "Raydium V4"} /\ m.type = "buy" THEN "buy"
    ELSE IF m.protocol \in {"Pump V1", "Raydium V4"} /\ m.type = "sell" THEN "sell"
    ELSE "none"

\* protocolMap[protocol]?.[transaction_type]
Dispatch(m) ==
    IF m.protocol = "Pump V1" /\ m.type = "buy" THEN "buy"
    ELSE IF m.protocol \in {"Pump V1", "Raydium V4"} /\ m.type = "sell" THEN "sell"
    ELSE "none"

\* if (!allowRebuy && buyList.includes(address)) break;
AlreadyBought(address) == ~allowRebuy /\ address \in buyList

\* if (attempts > maxBuyAttempts) break;
AttemptCapReached(attempts) == attempts > maxBuyAttempts

\* Variant: the attempt counter is not advanced.
NextAttemptsStuck(attempts) == attempts

\* attempts++
NextAttempts(attempts) == attempts + 1

\* Variant: the list is replaced by the latest address.
MarkAttemptedOnlyLatest(list, address) == {address}

\* Variant: the address is not recorded before the underlying buy is called.
MarkAttemptedNever(list, address) == list

\* buyList.push(address), placed before the underlying buy is called
MarkAttempted(list, address) == list \cup {address}

\* Variant: every result other than false counts as bought.
BoughtUnlessFalse(outcome) == outcome # "false"

\* if (bought) { spent += solAmount; break; }
Bought(outcome) == outcome = "true"

\* Variant: a sell that returned false ends the loop as well.
SoldOrFalse(outcome) == outcome \in {"noValue", "true", "false"}

\* if (sold === undefined || sold) break;
Sold(outcome) == outcome \in {"noValue", "true"}

\* ws.on('message', ...) up to its first await (or its return).
HandleMessage(h) ==
    /\ ~terminated
    /\ wsState = "open"
    /\ hPc[h] \in {"idle", "done"}
    /\ msgCount < MaxMessages
    /\ \E m \in Messages :
         LET act == IF SpendGate(spent, maxSolSpend) THEN "none"
                    ELSE IF ~filterMessages(m) THEN "none"
                    ELSE IF ~MakerTracked(m) THEN "none"
                    ELSE Dispatch(m)
         IN
         /\ hPc' = [hPc EXCEPT ![h] = IF act = "buy" THEN "buySleep"
                                      ELSE IF act = "sell" THEN "sellSleep"
                                      ELSE "done"]
         /\ hAddr' = [hAddr EXCEPT ![h] = m.addr]
         /\ hSignal' = [hSignal EXCEPT ![h] =
                IF m.maker = "tracked" /\ m.protocol = "Pump V1" /\ m.type \in {"buy", "sell"}
                THEN m.type
                ELSE IF m.maker = "tracked" /\ m.protocol = "Raydium V4" /\ m.type = "sell"
                     THEN "sell" ELSE "none"]
    /\ hAttempts' = [hAttempts EXCEPT ![h] = 0]
    /\ hGated' = [hGated EXCEPT ![h] = (spent >= maxSolSpend)]
    /\ hCalls' = [hCalls EXCEPT ![h] = 0]
    /\ hLast' = [hLast EXCEPT ![h] = "none"]
    /\ hAdded' = [hAdded EXCEPT ![h] = 0]
    /\ msgCount' = msgCount + 1
    /\ UNCHANGED <<buyList, spent, buyCalls, trueBuys, ctVars, cfgVars, calcVars,
                   connVars, engVars, pairVars>>

\* buyToken: sleep(500) is over; the two guards, then attempts++, push and the call.
BuyLoopWake(h) ==
    /\ ~terminated
    /\ hPc[h] = "buySleep"
    /\ IF AlreadyBought(hAddr[h]) \/ AttemptCapReached(hAttempts[h])
       THEN /\ hPc' = [hPc EXCEPT ![h] = "done"]
            /\ UNCHANGED <<hAttempts, buyList, hCalls, buyCalls>>
       ELSE /\ hAttempts' = [hAttempts EXCEPT ![h] = NextAttempts(hAttempts[h])]
            /\ buyList' = MarkAttempted(buyList, hAddr[h])
            /\ hPc' = [hPc EXCEPT ![h] = "buyCall"]
            /\ hCalls' = [hCalls EXCEPT ![h] = Bump(hCalls[h])]
            /\ buyCalls' = [buyCalls EXCEPT ![hAddr[h]] = BumpTo(buyCalls[hAddr[h]], 2)]
    /\ UNCHANGED <<spent, hAddr, hGated, hSignal, hLast, hAdded, trueBuys, msgCount, ctVars, cfgVars, calcVars,
                   connVars, engVars, pairVars>>

\* buyToken: the awaited underlying buy settles.
BuyReturns(h) ==
    /\ ~terminated
    /\ hPc[h] = "buyCall"
    /\ \E o \in BuyOutcomes :
         /\ hLast' = [hLast EXCEPT ![h] = o]
         /\ trueBuys' = IF o = "true" THEN trueBuys + 1 ELSE trueBuys
         /\ IF o # "raise" /\ Bought(o)
            THEN /\ spent' = spent + solIn
                 /\ hAdded' = [hAdded EXCEPT ![h] = hAdded[h] + solIn]
                 /\ hPc' = [hPc EXCEPT ![h] = "done"]
            ELSE /\ hPc' = [hPc EXCEPT ![h] = "buySleep"]
                 /\ UNCHANGED <<spent, hAdded>>
    /\ UNCHANGED <<buyList, hAddr, hAttempts, hGated, hSignal, hCalls, buyCalls, msgCount,
                   ctVars, cfgVars, calcVars,
                   connVars, engVars, pairVars>>

\* sellToken: sleep(500) is over; the underlying sell is called.
SellLoopWake(h) ==
    /\ ~terminated
    /\ hPc[h] = "sellSleep"
    /\ hPc' = [hPc EXCEPT ![h] = "sellCall"]
    /\ hCalls' = [hCalls EXCEPT ![h] = BumpTo(hCalls[h], 1)]
    /\ UNCHANGED <<buyList, spent, hAddr, hAttempts, hGated, hSignal, hLast, hAdded,
                   buyCalls, trueBuys, msgCount, ctVars, cfgVars, calcVars,
                   connVars, engVars, pairVars>>

\* sellToken: the awaited underlying sell settles.
SellReturns(h) ==
    /\ ~terminated
    /\ hPc[h] = "sellCall"
    /\ \E o \in SellOutcomes :
         /\ hLast' = [hLast EXCEPT ![h] = o]
         /\ hPc' = [hPc EXCEPT ![h] = IF o # "raise" /\ Sold(o) THEN "done"
                                      ELSE "sellSleep"]
    /\ UNCHANGED <<buyList, spent, hAddr, hAttempts, hGated, hSignal, hCalls, hAdded,
                   buyCalls, trueBuys, msgCount, ctVars, cfgVars, calcVars,
                   connVars, engVars, pairVars>>

Init ==
    /\ allowRebuy \in BOOLEAN
    /\ maxBuyAttempts \in 0..MaxBuyAttemptsBound
    /\ maxSolSpend \in 0..MaxSpendBound
    /\ solIn \in SolInValues
    /\ buyList = {}
    /\ spent = 0
    /\ hPc = [h \in Handlers |-> "idle"]
    /\ hAddr = [h \in Handlers |-> "mintA"]
    /\ hAttempts = [h \in Handlers |-> 0]
    /\ hGated = [h \in Handlers |-> FALSE]
    /\ hSignal = [h \in Handlers |-> "none"]
    /\ hCalls = [h \in Handlers |-> 0]
    /\ hLast = [h \in Handlers |-> "none"]
    /\ hAdded = [h \in Handlers |-> 0]
    /\ buyCalls = [a \in Addresses |-> 0]
    /\ trueBuys = 0
    /\ msgCount = 0
    \* no confirmTxn call is modelled in this specification
    /\ ctImpl = "raydium"
    /\ ctMaxRetries = 0
    /\ ctRetries = InitialRetries
    /\ ctPc = "done"
    /\ ctResult = "none"
    /\ ctHist = <<>>
    \* the session is streaming on its first websocket
    /\ mainPc = "waitClose"
    /\ wsState = "open"
    /\ wsCount = 1
    /\ refreshing = 0
    /\ sleeping = 0
    /\ terminated = FALSE
    /\ balanceLoops = 1
    /\ refreshFails = 0
    \* no engine call is in progress
    /\ eEngine = "ammV4"
    /\ eOp = "buy"
    /\ ePct = 100
    /\ ePc = "done"
    /\ eResult = "false"
    /\ ePool = "unread"
    /\ ePoolEnv = "none"
    /\ eBalance = "unread"
    /\ eConfirm = "none"
    /\ eBuilt = FALSE
    /\ eSigned = FALSE
    /\ eSubmitted = FALSE
    \* no pair-address scan is in progress
    /\ pProgram = "ammV4"
    /\ pMint = "mintA"
    /\ pPc = "done"
    /\ pScans = <<>>
    /\ pResult = <<>>
    /\ call = NoCall

Next ==
    \E h \in Handlers :
        \/ HandleMessage(h)
        \/ BuyLoopWake(h)
        \/ BuyReturns(h)
        \/ SellLoopWake(h)
        \/ SellReturns(h)

Spec == Init /\ [][Next]_vars

\* Timers fire and awaited buys settle.
FairSpec ==
    /\ Spec
    /\ \A h \in Handlers : WF_vars(BuyLoopWake(h)) /\ WF_vars(BuyReturns(h))

SpecConfirm == CtInit /\ [][CtNext]_vars

(***************************************************************************)
(* Session life cycle: main, refreshAccessToken, connect                   *)
(***************************************************************************)
\* How refreshAccessToken's request and cookie write can end.
RefreshOutcomes == {"ok", "rejected", "networkError", "cookieNotWritten"}

\* Variant: only a rejected request ends the process.
RefreshFatalOnlyRejected(outcome) == outcome = "rejected"

\* status !== 200 -> process.exit(1); a throw of axios.post, or the throw after
\* writeCookie returned false, -> catch -> process.exit(1)
RefreshFatal(outcome) == outcome # "ok"

\* new WebSocket(...) and the registration of its handlers, inside connect's try
ConstructOutcomes == {"created", "throws"}

\* main: await refreshAccessToken(); then connect() runs up to its first await.
MainRefreshDone ==
    /\ ~terminated
    /\ mainPc = "refresh"
    /\ \E o \in RefreshOutcomes, c \in ConstructOutcomes :
         /\ refreshFails' = IF o # "ok" THEN refreshFails + 1 ELSE refreshFails
         /\ IF RefreshFatal(o)
            THEN /\ terminated' = TRUE
                 /\ UNCHANGED <<mainPc, wsState, wsCount>>
            ELSE /\ terminated' = FALSE
                 /\ IF c = "created"
                    THEN /\ wsState' = "connecting"
                         /\ wsCount' = wsCount + 1
                         /\ mainPc' = "waitClose"
                    ELSE /\ mainPc' = "exited"
                         /\ UNCHANGED <<wsState, wsCount>>
    /\ UNCHANGED <<refreshing, sleeping, balanceLoops,
                   ctVars, cfgVars, calcVars, orchVars, engVars, pairVars>>

\* ws.on('open'): sends the payloads, starts sendPing and getCurrentBalance.
SocketOpens ==
    /\ ~terminated
    /\ wsState = "connecting"
    /\ wsState' = "open"
    /\ balanceLoops' = balanceLoops + 1
    /\ UNCHANGED <<mainPc, wsCount, refreshing, sleeping, terminated, refreshFails,
                   ctVars, cfgVars, calcVars, orchVars, engVars, pairVars>>

\* ws.on('error'): ws.close()
SocketError ==
    /\ ~terminated
    /\ wsState \in {"connecting", "open"}
    /\ wsState' = "closing"
    /\ UNCHANGED <<mainPc, wsCount, refreshing, sleeping, terminated, balanceLoops,
                   refreshFails, ctVars, cfgVars, calcVars, orchVars, engVars, pairVars>>

\* Variant: connect gives up after its second websocket.
KeepConnectingTwice(count) == count < 2

\* while (true) of connect, `count` websockets having been created: there is no
\* exit other than the break of the catch
KeepConnecting(count) == TRUE

\* The 'close' event runs both listeners: the async close handler starts
\* refreshAccessToken, and the promise awaited by connect resolves, so the loop
\* goes round and creates the next websocket before any I/O completes.
SocketClose ==
    /\ ~terminated
    /\ mainPc = "waitClose"
    /\ wsState \in {"connecting", "open", "closing"}
    /\ wsCount < MaxSockets
    /\ refreshing' = refreshing + 1
    /\ IF KeepConnecting(wsCount)
       THEN \E c \in ConstructOutcomes :
              IF c = "created"
              THEN /\ wsState' = "connecting"
                   /\ wsCount' = wsCount + 1
                   /\ mainPc' = "waitClose"
              ELSE /\ wsState' = "closed"
                   /\ mainPc' = "exited"
                   /\ UNCHANGED wsCount
       ELSE /\ wsState' = "closed"
            /\ mainPc' = "returned"
            /\ UNCHANGED wsCount
    /\ UNCHANGED <<sleeping, terminated, balanceLoops, refreshFails,
                   ctVars, cfgVars, calcVars, orchVars, engVars, pairVars>>

\* close handler: await refreshAccessToken() settles.
CloseRefreshDone ==
    /\ ~terminated
    /\ refreshing > 0
    /\ \E o \in RefreshOutcomes :
         /\ refreshFails' = IF o # "ok" THEN refreshFails + 1 ELSE refreshFails
         /\ IF RefreshFatal(o)
            THEN /\ terminated' = TRUE
                 /\ UNCHANGED <<refreshing, sleeping>>
            ELSE /\ terminated' = FALSE
                 /\ refreshing' = refreshing - 1
                 /\ sleeping' = sleeping + 1
    /\ UNCHANGED <<mainPc, wsState, wsCount, balanceLoops,
                   ctVars, cfgVars, calcVars, orchVars, engVars, pairVars>>

\* close handler: await sleep(5000) elapses and the handler ends.
CloseSleepDone ==
    /\ ~terminated
    /\ sleeping > 0
    /\ sleeping' = sleeping - 1
    /\ UNCHANGED <<mainPc, wsState, wsCount, refreshing, terminated, balanceLoops,
                   refreshFails, ctVars, cfgVars, calcVars, orchVars, engVars, pairVars>>

\* Process start: main is about to await its first refreshAccessToken.
ConnInit ==
    /\ mainPc = "refresh"
    /\ wsState = "none"
    /\ wsCount = 0
    /\ refreshing = 0
    /\ sleeping = 0
    /\ terminated = FALSE
    /\ balanceLoops = 0
    /\ refreshFails = 0
    /\ allowRebuy = FALSE
    /\ maxBuyAttempts = 0
    /\ maxSolSpend = 1
    /\ solIn = 1
    /\ buyList = {}
    /\ spent = 0
    /\ hPc = [h \in Handlers |-> "idle"]
    /\ hAddr = [h \in Handlers |-> "mintA"]
    /\ hAttempts = [h \in Handlers |-> 0]
    /\ hGated = [h \in Handlers |-> FALSE]
    /\ hSignal = [h \in Handlers |-> "none"]
    /\ hCalls = [h \in Handlers |-> 0]
    /\ hLast = [h \in Handlers |-> "none"]
    /\ hAdded = [h \in Handlers |-> 0]
    /\ buyCalls = [a \in Addresses |-> 0]
    /\ trueBuys = 0
    /\ msgCount = 0
    \* no confirmTxn call is modelled in this specification
    /\ ctImpl = "raydium"
    /\ ctMaxRetries = 0
    /\ ctRetries = InitialRetries
    /\ ctPc = "done"
    /\ ctResult = "none"
    /\ ctHist = <<>>
    \* no engine call is in progress
    /\ eEngine = "ammV4"
    /\ eOp = "buy"
    /\ ePct = 100
    /\ ePc = "done"
    /\ eResult = "false"
    /\ ePool = "unread"
    /\ ePoolEnv = "none"
    /\ eBalance = "unread"
    /\ eConfirm = "none"
    /\ eBuilt = FALSE
    /\ eSigned = FALSE
    /\ eSubmitted = FALSE
    \* no pair-address scan is in progress
    /\ pProgram = "ammV4"
    /\ pMint = "mintA"
    /\ pPc = "done"
    /\ pScans = <<>>
    /\ pResult = <<>>
    /\ call = NoCall

ConnNext ==
    \/ MainRefreshDone
    \/ SocketOpens
    \/ SocketError
    \/ SocketClose
    \/ CloseRefreshDone
    \/ CloseSleepDone
    \* the signals are followed through one handler at a time
    \/ HandleMessage(1)
    \/ BuyLoopWake(1)
    \/ BuyReturns(1)
    \/ SellLoopWake(1)
    \/ SellReturns(1)

SpecConn == ConnInit /\ [][ConnNext]_vars

(***************************************************************************)
(* Trading-engine buy and sell: AMM-V4, CPMM, CLMM and the bonding curve   *)
(***************************************************************************)
Engines == {"ammV4", "cpmm", "clmm", "pump"}

Ops == {"buy", "sell"}

Percentages == {0, 1, 100, 101}

\* The awaited steps of each operation, in source order.  "resolve" is the
\* pool-key (bonding curve: coin-data) resolution, "submit" signs and sends.
Stages(engine, op) ==
    IF engine = "ammV4"
    THEN IF op = "buy"
         THEN <<"resolve", "reserves", "accounts", "build", "submit", "confirm">>
         ELSE <<"guard", "resolve", "balance", "reserves", "build", "submit", "confirm">>
    ELSE IF engine = "cpmm"
    THEN IF op = "buy"
         THEN <<"resolve", "reserves", "accounts", "build", "submit", "confirm">>
         ELSE <<"resolve", "balance", "reserves", "build", "submit", "confirm">>
    ELSE IF engine = "clmm"
    THEN IF op = "buy"
         THEN <<"resolve", "accounts", "build", "submit", "confirm">>
         ELSE <<"resolve", "accounts", "balance", "build", "submit", "confirm">>
    ELSE IF op = "buy"
         THEN <<"resolve", "accounts", "build", "submit", "confirm">>
         ELSE <<"guard", "resolve", "balance", "build">>

\* The step that follows `stage`, "return" after the last one.
StageAfter(engine, op, stage) ==
    LET seq == Stages(engine, op)
        i == CHOOSE k \in 1..Len(seq) : seq[k] = stage
    IN IF i < Len(seq) THEN seq[i + 1] ELSE "return"

\* Whether `stage` lies inside the operation's try block.  The CPMM buy wraps only
\* sendAndConfirmTransaction and confirmTxn; every other operation wraps its body.
InTry(engine, op, stage) ==
    ~(engine = "cpmm" /\ op = "buy" /\ stage \notin {"submit", "confirm"})

\* What the caller sees when `stage` throws.
Thrown(engine, op, stage) == IF InTry(engine, op, stage) THEN "false" ELSE "raised"

\* if (percentage < 1 || percentage > 100) return false;
OutOfRange(percentage) == percentage < 1 \/ percentage > 100

\* What the RPC node and the decoders can do while the pool keys (raydium) or the
\* coin data (bonding curve) are resolved.  "ok": every read and decode succeeds.
ResolveEnvs(engine) ==
    IF engine = "ammV4"
    THEN {"ok", "poolRpcError", "poolMissing", "poolDecodeFails",
          "marketRpcError", "marketMissing", "marketDecodeFails", "authorityFails"}
    ELSE IF engine = "cpmm"
    THEN {"ok", "poolRpcError", "poolMissing", "poolDecodeFails"}
    ELSE IF engine = "clmm"
    THEN {"ok", "poolRpcError", "poolMissing", "poolDecodeFails", "tickArraysFail"}
    ELSE {"ok", "okComplete", "deriveFails", "reservesFail", "coinDataFails"}

\* The environments in which the pool account or the market account is missing,
\* a decoder fails or an RPC call fails.
ResolveFailures ==
    {"poolRpcError", "poolMissing", "poolDecodeFails",
     "marketRpcError", "marketMissing", "marketDecodeFails"}

\* Variant: a rejected RPC call is let through to the caller.
fetchPoolKeysRpcThrows(engine, env) ==
    IF env \in {"poolRpcError", "marketRpcError"} THEN "throws"
    ELSE IF env = "ok" THEN "found"
    ELSE IF env = "okComplete" THEN "complete"
    ELSE "noValue"

\* fetchAmmV4PoolKeys, fetchCpmmPoolKeys, fetchClmmPoolKeys: the whole body is in
\* try { ... } catch (e) { console.error(...); return null; }.  getCoinData returns
\* null after each of its failed steps.
fetchPoolKeys(engine, env) ==
    IF env = "ok" THEN "found"
    ELSE IF env = "okComplete" THEN "complete"
    ELSE "noValue"

\* Variant: the completion flag of the curve is not looked at.
RefusesIgnoringComplete(engine, op, pool) == pool = "noValue"

\* if (!poolKeys) return false;  bonding-curve buy: if (!coinData) return false;
\* if (coinData.complete) return false;
Refuses(engine, op, pool) ==
    pool = "noValue" \/ (engine = "pump" /\ op = "buy" /\ pool = "complete")

\* The raydium getTokenBalance lets an RPC error through; the pumpfun one catches it
\* and returns null.
BalanceOutcomes(engine) ==
    IF engine = "pump" THEN {"positive", "zero", "absent"}
    ELSE {"positive", "zero", "absent", "throws"}

\* Variant: only a balance of 0 counts, a missing one does not.
NoBalanceOnlyZero(balance) == balance = "zero"

\* if (!tokenBalance || tokenBalance === 0)
NoBalance(balance) == balance \in {"zero", "absent"}

\* AMM-V4, CPMM, CLMM: return false;  bonding curve: return null;
NoBalanceResult(engine) == IF engine = "pump" THEN "null" ELSE "false"

\* confirmTxn gives true, false or null; connection.confirmTransaction of the
\* bonding-curve buy gives a status or throws.
ConfirmOutcomes(engine) ==
    IF engine = "pump" THEN {"true", "false", "throws"} ELSE {"true", "false", "unknown"}

\* return confirmed;  bonding curve: return confirmation.value.err === null;
ConfirmResult(engine, op, outcome) ==
    IF outcome = "throws" THEN Thrown(engine, op, "confirm")
    ELSE IF outcome = "unknown" THEN "null"
    ELSE outcome

\* The call ends with `result`.
Return(result) == ePc' = "done" /\ eResult' = result

\* The call goes on after `stage`; an operation whose last step is not a
\* confirmation ends with `return true`.
Proceed(stage) ==
    LET n == StageAfter(eEngine, eOp, stage)
    IN IF n = "return" THEN Return("true") ELSE ePc' = n /\ eResult' = eResult

EngGuard ==
    /\ ePc = "guard"
    /\ IF OutOfRange(ePct) THEN Return("false") ELSE Proceed("guard")
    /\ UNCHANGED <<eEngine, eOp, ePct, ePool, ePoolEnv, eBalance, eConfirm, eBuilt, eSigned, eSubmitted,
                   ctVars, cfgVars, calcVars, orchVars, connVars, pairVars>>

\* fetchAmmV4PoolKeys / fetchCpmmPoolKeys / fetchClmmPoolKeys / getCoinData
EngResolve ==
    /\ ePc = "resolve"
    /\ \E env \in ResolveEnvs(eEngine) :
         LET o == fetchPoolKeys(eEngine, env)
         IN /\ ePoolEnv' = env
            /\ ePool' = o
            /\ IF o = "throws" THEN Return(Thrown(eEngine, eOp, "resolve"))
               ELSE IF Refuses(eEngine, eOp, o) THEN Return("false")
               ELSE Proceed("resolve")
    /\ UNCHANGED <<eEngine, eOp, ePct, eBalance, eConfirm, eBuilt, eSigned, eSubmitted,
                   ctVars, cfgVars, calcVars, orchVars, connVars, pairVars>>

\* getTokenBalance and the test of its result
EngBalance ==
    /\ ePc = "balance"
    /\ \E o \in BalanceOutcomes(eEngine) :
         /\ eBalance' = o
         /\ IF o = "throws" THEN Return(Thrown(eEngine, eOp, "balance"))
            ELSE IF NoBalance(o) THEN Return(NoBalanceResult(eEngine))
            ELSE Proceed("balance")
    /\ UNCHANGED <<eEngine, eOp, ePct, ePool, ePoolEnv, eConfirm, eBuilt, eSigned, eSubmitted,
                   ctVars, cfgVars, calcVars, orchVars, connVars, pairVars>>

\* const { baseReserve, quoteReserve, tokenDecimal } = await get...Reserves(poolKeys):
\* destructuring the reader's null throws a TypeError.
EngReserves ==
    /\ ePc = "reserves"
    /\ \E o \in {"values", "noValue", "throws"} :
         IF o = "values" THEN Proceed("reserves")
         ELSE Return(Thrown(eEngine, eOp, "reserves"))
    /\ UNCHANGED <<eEngine, eOp, ePct, ePool, ePoolEnv, eBalance, eConfirm, eBuilt, eSigned, eSubmitted,
                   ctVars, cfgVars, calcVars, orchVars, connVars, pairVars>>

\* getAccountInfo / getTokenAccountsByOwner.  The bonding-curve buy has its own
\* try around the lookup and falls back to creating the token account.
EngAccounts ==
    /\ ePc = "accounts"
    /\ \E o \in {"found", "none", "throws"} :
         IF o = "throws" /\ eEngine # "pump"
         THEN Return(Thrown(eEngine, eOp, "accounts"))
         ELSE Proceed("accounts")
    /\ UNCHANGED <<eEngine, eOp, ePct, ePool, ePoolEnv, eBalance, eConfirm, eBuilt, eSigned, eSubmitted,
                   ctVars, cfgVars, calcVars, orchVars, connVars, pairVars>>

\* amounts, swap instruction, instruction list, getLatestBlockhash, message
EngBuild ==
    /\ ePc = "build"
    /\ \E o \in {"built", "throws"} :
         IF o = "throws"
         THEN Return(Thrown(eEngine, eOp, "build")) /\ UNCHANGED eBuilt
         ELSE Proceed("build") /\ eBuilt' = TRUE
    /\ UNCHANGED <<eEngine, eOp, ePct, ePool, ePoolEnv, eBalance, eConfirm, eSigned, eSubmitted,
                   ctVars, cfgVars, calcVars, orchVars, connVars, pairVars>>

\* txn.sign([payer]); sendTransaction(txn)   (CPMM: sendAndConfirmTransaction)
EngSubmit ==
    /\ ePc = "submit"
    /\ eSigned' = TRUE
    /\ \E o \in {"sent", "throws"} :
         IF o = "throws"
         THEN Return(Thrown(eEngine, eOp, "submit")) /\ UNCHANGED eSubmitted
         ELSE Proceed("submit") /\ eSubmitted' = TRUE
    /\ UNCHANGED <<eEngine, eOp, ePct, ePool, ePoolEnv, eBalance, eConfirm, eBuilt,
                   ctVars, cfgVars, calcVars, orchVars, connVars, pairVars>>

EngConfirm ==
    /\ ePc = "confirm"
    /\ \E o \in ConfirmOutcomes(eEngine) :
         /\ eConfirm' = o
         /\ Return(ConfirmResult(eEngine, eOp, o))
    /\ UNCHANGED <<eEngine, eOp, ePct, ePool, ePoolEnv, eBalance, eBuilt, eSigned, eSubmitted,
                   ctVars, cfgVars, calcVars, orchVars, connVars, pairVars>>

\* One call of one operation; buy takes no percentage.
EngInit ==
    /\ eEngine \in Engines
    /\ eOp \in Ops
    /\ ePct \in Percentages
    /\ eOp = "buy" => ePct = 100
    /\ ePc = Stages(eEngine, eOp)[1]
    /\ eResult = "pending"
    /\ ePool = "unread"
    /\ ePoolEnv = "none"
    /\ eBalance = "unread"
    /\ eConfirm = "none"
    /\ eBuilt = FALSE
    /\ eSigned = FALSE
    /\ eSubmitted = FALSE
    \* the orchestrator is at rest
    /\ allowRebuy = TRUE
    /\ maxBuyAttempts = 0
    /\ maxSolSpend = 0
    /\ solIn = 1
    /\ buyList = {}
    /\ spent = 0
    /\ hPc = [h \in Handlers |-> "idle"]
    /\ hAddr = [h \in Handlers |-> "mintA"]
    /\ hAttempts = [h \in Handlers |-> 0]
    /\ hGated = [h \in Handlers |-> FALSE]
    /\ hSignal = [h \in Handlers |-> "none"]
    /\ hCalls = [h \in Handlers |-> 0]
    /\ hLast = [h \in Handlers |-> "none"]
    /\ hAdded = [h \in Handlers |-> 0]
    /\ buyCalls = [a \in Addresses |-> 0]
    /\ trueBuys = 0
    /\ msgCount = 0
    \* no confirmTxn call is modelled in this specification
    /\ ctImpl = "raydium"
    /\ ctMaxRetries = 0
    /\ ctRetries = InitialRetries
    /\ ctPc = "done"
    /\ ctResult = "none"
    /\ ctHist = <<>>
    \* the session is streaming on its first websocket
    /\ mainPc = "waitClose"
    /\ wsState = "open"
    /\ wsCount = 1
    /\ refreshing = 0
    /\ sleeping = 0
    /\ terminated = FALSE
    /\ balanceLoops = 1
    /\ refreshFails = 0
    \* no pair-address scan is in progress
    /\ pProgram = "ammV4"
    /\ pMint = "mintA"
    /\ pPc = "done"
    /\ pScans = <<>>
    /\ pResult = <<>>
    /\ call = NoCall

EngNext ==
    \/ EngGuard
    \/ EngResolve
    \/ EngBalance
    \/ EngReserves
    \/ EngAccounts
    \/ EngBuild
    \/ EngSubmit
    \/ EngConfirm

SpecEngine == EngInit /\ [][EngNext]_vars

(***************************************************************************)
(* fetchPairAddressFromRpc                                                 *)
(***************************************************************************)
\* getAmmV4PairFromRpc, getCpmmPairAddressFromRpc, getClmmPairAddressFromRpc
PairPrograms == {"ammV4", "cpmm", "clmm"}

\* (quoteOffset, baseOffset, dataLength) each helper passes
PairLayout(program) ==
    IF program = "ammV4" THEN [quoteOffset |-> 400, baseOffset |-> 432, dataLength |-> 752]
    ELSE IF program = "cpmm" THEN [quoteOffset |-> 168, baseOffset |-> 200, dataLength |-> 637]
    ELSE [quoteOffset |-> 73, baseOffset |-> 105, dataLength |-> 1544]

DEFAULT_QUOTE_MINT == "wsol"

PairMints == {"mintA", "mintB", DEFAULT_QUOTE_MINT}

\* getProgramAccounts raises or returns some number of accounts.
ScanOutcomes ==
    {[raised |-> TRUE, count |-> 0]} \cup {[raised |-> FALSE, count |-> n] : n \in 0..MaxAccounts}

\* The filters fetchPair(baseMint, quoteMint) sends.
ScanFilters(program, baseMint, quoteMint) ==
    LET l == PairLayout(program)
    IN [dataSize |-> l.dataLength,
        first |-> [offset |-> l.quoteOffset, bytes |-> baseMint],
        second |-> [offset |-> l.baseOffset, bytes |-> quoteMint]]

\* fetchPair: the account keys, [] when there are none, [] from the catch.
fetchPair(outcome) ==
    IF outcome.raised THEN <<>> ELSE [i \in 1..outcome.count |-> i]

\* Variant: the swapped scan is made whatever the first scan found.
NeedsSecondScanAlways(pairAddresses) == Len(pairAddresses) >= 0

\* if (pairAddresses.length === 0)
NeedsSecondScan(pairAddresses) == Len(pairAddresses) = 0

\* let pairAddresses = await fetchPair(tokenMint, DEFAULT_QUOTE_MINT); and the test
PairFirstScan ==
    /\ pPc = "first"
    /\ \E o \in ScanOutcomes :
         /\ pScans' = Append(pScans, [filters |-> ScanFilters(pProgram, pMint, DEFAULT_QUOTE_MINT),
                                      outcome |-> o])
         /\ pResult' = fetchPair(o)
         /\ pPc' = IF NeedsSecondScan(fetchPair(o)) THEN "second" ELSE "done"
    /\ UNCHANGED <<pProgram, pMint, ctVars, cfgVars, calcVars, orchVars, connVars, engVars>>

\* pairAddresses = await fetchPair(DEFAULT_QUOTE_MINT, tokenMint); return pairAddresses;
PairSecondScan ==
    /\ pPc = "second"
    /\ \E o \in ScanOutcomes :
         /\ pScans' = Append(pScans, [filters |-> ScanFilters(pProgram, DEFAULT_QUOTE_MINT, pMint),
                                      outcome |-> o])
         /\ pResult' = fetchPair(o)
         /\ pPc' = "done"
    /\ UNCHANGED <<pProgram, pMint, ctVars, cfgVars, calcVars, orchVars, connVars, engVars>>

PairInit ==
    /\ pProgram \in PairPrograms
    /\ pMint \in PairMints
    /\ pPc = "first"
    /\ pScans = <<>>
    /\ pResult = <<>>
    /\ call = NoCall
    \* the orchestrator is at rest
    /\ allowRebuy = TRUE
    /\ maxBuyAttempts = 0
    /\ maxSolSpend = 0
    /\ solIn = 1
    /\ buyList = {}
    /\ spent = 0
    /\ hPc = [h \in Handlers |-> "idle"]
    /\ hAddr = [h \in Handlers |-> "mintA"]
    /\ hAttempts = [h \in Handlers |-> 0]
    /\ hGated = [h \in Handlers |-> FALSE]
    /\ hSignal = [h \in Handlers |-> "none"]
    /\ hCalls = [h \in Handlers |-> 0]
    /\ hLast = [h \in Handlers |-> "none"]
    /\ hAdded = [h \in Handlers |-> 0]
    /\ buyCalls = [a \in Addresses |-> 0]
    /\ trueBuys = 0
    /\ msgCount = 0
    \* no confirmTxn call is modelled in this specification
    /\ ctImpl = "raydium"
    /\ ctMaxRetries = 0
    /\ ctRetries = InitialRetries
    /\ ctPc = "done"
    /\ ctResult = "none"
    /\ ctHist = <<>>
    \* the session is streaming on its first websocket
    /\ mainPc = "waitClose"
    /\ wsState = "open"
    /\ wsCount = 1
    /\ refreshing = 0
    /\ sleeping = 0
    /\ terminated = FALSE
    /\ balanceLoops = 1
    /\ refreshFails = 0
    \* no engine call is in progress
    /\ eEngine = "ammV4"
    /\ eOp = "buy"
    /\ ePct = 100
    /\ ePc = "done"
    /\ eResult = "false"
    /\ ePool = "unread"
    /\ ePoolEnv = "none"
    /\ eBalance = "unread"
    /\ eConfirm = "none"
    /\ eBuilt = FALSE
    /\ eSigned = FALSE
    /\ eSubmitted = FALSE

PairNext == PairFirstScan \/ PairSecondScan

SpecPair == PairInit /\ [][PairNext]_vars

(***************************************************************************)
(* Properties of confirmTxn (checked under SpecConfirm)                    *)
(***************************************************************************)
AllNotFound(n) == \A i \in 1..n : ctHist[i] = "notFound"

OnlyTransient(n) == \A i \in 1..n : ctHist[i] \in {"notFound", "rpcError"}

C2_TrueAfterNPlusOne ==
    \A n \in 0..MaxRetriesBound :
        (n + 1 < ctMaxRetries) =>
            /\ (Len(ctHist) = n /\ AllNotFound(n)) => ctPc # "done"
            /\ (Len(ctHist) >= n + 1 /\ AllNotFound(n) /\ ctHist[n + 1] = "success") =>
                  /\ Len(ctHist) = n + 1
                  /\ ctPc = "done"
                  /\ ctResult = "true"

\* C2 witness: N = 2, maxRetries = 4: two 'not found', then success on lookup 3.
C2_Witness ==
    /\ ctMaxRetries = 4
    /\ ctHist = <<"notFound", "notFound", "success">>
    /\ ctResult = "true"
    /\ ctPc = "done"

\* C3: if every lookup returns 'not found' and maxRetries >= 1, confirmTxn makes
\* never more than maxRetries - 1 lookups and, once it has returned, has returned
\* 'unknown' after exactly maxRetries - 1 lookups.
C3_UnknownAfterMaxMinusOne ==
    (ctMaxRetries >= 1 /\ AllNotFound(Len(ctHist))) =>
        /\ Len(ctHist) <= ctMaxRetries - 1
        /\ ctPc = "done" => (ctResult = "unknown" /\ Len(ctHist) = ctMaxRetries - 1)
        /\ ctPc # "done" => ctResult = "none"

\* C3 witness: maxRetries = 4, three lookups all 'not found', result 'unknown'.
C3_Witness ==
    /\ ctMaxRetries = 4
    /\ ctHist = <<"notFound", "notFound", "notFound">>
    /\ ctResult = "unknown"
    /\ ctPc = "done"

\* C4: a lookup that raises an RPC error is treated like 'not found': while the
\* lookups so far only raised or found nothing, each of them has counted as one
\* attempt (retries = 1 + number of lookups), confirmTxn is waiting, about to poll
\* again or has returned 'unknown' at the bound; no exception escapes, and false is
\* returned only for a lookup that returned a transaction with an on-chain error.
C4_RpcErrorIsRetry ==
    /\ ctResult # "raised"
    /\ ctResult = "false" =>
            (Len(ctHist) >= 1 /\ ctHist[Len(ctHist)] = "onChainError")
    /\ OnlyTransient(Len(ctHist)) =>
            /\ ctRetries = 1 + Len(ctHist)
            /\ ctResult \in {"none", "unknown"}
            /\ ctPc = "done" => (ctResult = "unknown" /\ ctRetries >= ctMaxRetries)
            /\ ctPc # "done" => ctResult = "none"

\* C4 witness: three lookups raise an RPC error; confirmTxn has retried after each
\* and returned 'unknown', not false.
C4_Witness ==
    /\ ctMaxRetries = 4
    /\ ctHist = <<"rpcError", "rpcError", "rpcError">>
    /\ ctResult = "unknown"
    /\ ctRetries = 4

(***************************************************************************)
(* Properties of the orchestrator (checked under Spec and FairSpec)        *)
(***************************************************************************)
InBuyRun(h) == hPc[h] \in {"buySleep", "buyCall"}

C6_SpendGate ==
    \A h \in Handlers : hGated[h] => (hCalls[h] = 0 /\ hPc[h] = "done")

\* C6 witness: after a buy has brought spend to the maximum, a tracked-wallet buy
\* signal arrived and was ignored.
C6_Witness ==
    \E h \in Handlers :
        /\ maxSolSpend > 0
        /\ spent >= maxSolSpend
        /\ hGated[h]
        /\ hSignal[h] = "buy"
        /\ hPc[h] = "done"
        /\ hCalls[h] = 0

\* C7: with ALLOW_REBUY=false at most one underlying buy call is made per address
\* since process start.
C7_NoRebuy ==
    ~allowRebuy => \A a \in Addresses : buyCalls[a] <= 1

\* C7 witness: two tracked buy signals for the same address with ALLOW_REBUY=false:
\* one made the single call, which raised, and the other was aborted by the guard.
C7_Witness ==
    /\ ~allowRebuy
    /\ hAddr[1] = "mintA" /\ hAddr[2] = "mintA"
    /\ hSignal[1] = "buy" /\ hSignal[2] = "buy"
    /\ ~hGated[1] /\ ~hGated[2]
    /\ hPc[1] = "done" /\ hPc[2] = "done"
    /\ hCalls[1] = 1 /\ hLast[1] = "raise"
    /\ hCalls[2] = 0
    /\ buyCalls["mintA"] = 1

\* C8: a buyToken run calls the underlying buy at most MAX_BUY_ATTEMPTS times.
C8_AtMostMaxAttempts ==
    \A h \in Handlers : hSignal[h] = "buy" => hCalls[h] <= maxBuyAttempts

\* C9: every buyToken run terminates.
C9_BuyTokenTerminates ==
    \A h \in Handlers : InBuyRun(h) ~> (hPc[h] = "done")

\* C9 witness: MAX_BUY_ATTEMPTS = 0, re-buy allowed: the run made its attempt, which
\* raised, and then ended at the attempt cap.
C9_Witness ==
    \E h \in Handlers :
        /\ allowRebuy
        /\ maxBuyAttempts = 0
        /\ hSignal[h] = "buy"
        /\ hCalls[h] = 1
        /\ hLast[h] = "raise"
        /\ hPc[h] = "done"

\* C10: a buyToken run has added solAmount to spent exactly when its latest
\* underlying buy returned true, and then it has ended; otherwise it has added
\* nothing. Spend changes in no other way: spent = solIn * (buys that returned true).
C10_SpendOncePerSuccess ==
    /\ \A h \in Handlers :
         /\ hAdded[h] = IF hSignal[h] = "buy" /\ hLast[h] = "true" THEN solIn ELSE 0
         /\ (hSignal[h] = "buy" /\ hLast[h] = "true") => hPc[h] = "done"
    /\ spent = solIn * trueBuys

\* C10 witness: a run whose first buy failed and whose second buy returned true has
\* added solIn once and ended.
C10_Witness ==
    \E h \in Handlers :
        /\ hSignal[h] = "buy"
        /\ hCalls[h] = 2
        /\ hLast[h] = "true"
        /\ hAdded[h] = solIn
        /\ spent = solIn
        /\ hPc[h] = "done"

(***************************************************************************)
(* Properties of sellToken and of the dispatch table (checked under Spec)  *)
(***************************************************************************)
\* C11: sellToken makes no further sell call after a sell that returned true or
\* the zero-balance 'nothing to do' result of the bonding-curve sell.
C11_StopsAfterTrueOrNoValue ==
    \A h \in Handlers :
        hPc[h] = "sellCall" => hLast[h] \notin {"true", NoBalanceResult("pump")}

\* C12: a handler runs buyToken only for a tracked 'Pump V1' buy signal, runs
\* sellToken only for a tracked sell signal of 'Pump V1' or 'Raydium V4', and makes
\* no buy or sell call for any other signal.
C12_DispatchTable ==
    \A h \in Handlers :
        /\ hPc[h] \in {"buySleep", "buyCall"} => hSignal[h] = "buy"
        /\ hPc[h] \in {"sellSleep", "sellCall"} => hSignal[h] = "sell"
        /\ hSignal[h] = "none" => (hPc[h] \in {"idle", "done"} /\ hCalls[h] = 0)

C12_Witness ==
    /\ hPc[1] = "sellCall" /\ hSignal[1] = "sell"
    /\ hPc[2] = "done" /\ hSignal[2] = "none" /\ hCalls[2] = 0 /\ ~hGated[2]

(***************************************************************************)
(* Properties of the session life cycle (checked under SpecConn)           *)
(***************************************************************************)
\* C13: while a close handler's refresh or 5-second wait is in progress, no
\* websocket opened after that close exists.
C13_ReconnectAfterRefreshAndWait ==
    (refreshing + sleeping > 0) => wsState \notin {"connecting", "open", "closing"}

\* C14: a failed refresh ends the process at once; a terminated process opens no
\* websocket, starts or continues no buy or sell run and stays terminated; no
\* second refresh follows a failed one.
C14_RefreshFailureIsFatal ==
    /\ [](refreshFails > 0 => terminated)
    /\ [](refreshFails <= 1)
    /\ [][terminated => (terminated' /\ wsCount' = wsCount /\ wsState' = wsState
                          /\ hPc' = hPc /\ hCalls' = hCalls
                          /\ refreshing' = refreshing)]_vars

C14_Witness ==
    /\ terminated
    /\ refreshFails = 1
    /\ wsCount > 1
    /\ hPc[1] \in {"buyCall", "sellCall"}

(***************************************************************************)
(* Properties of the trading engines (checked under SpecEngine)            *)
(***************************************************************************)
\* C15: no engine buy or sell ends with an exception reaching its caller.
C15_NoExceptionEscapes == eResult # "raised"

\* C16: an ended AMM-V4 buy or sell has returned true or false, and true exactly
\* when the submitted transaction was confirmed without an on-chain error.
C16_AmmV4ReturnsBoolean ==
    (eEngine = "ammV4" /\ ePc = "done") =>
        /\ eResult \in {"true", "false"}
        /\ eResult = "true" <=> (eSubmitted /\ eConfirm = "true")

\* C17: a sell called with a percentage below 1 or above 100 signs and submits
\* nothing and, once ended, has returned false.
C17_PercentageGuard ==
    (eOp = "sell" /\ (ePct < 1 \/ ePct > 100)) =>
        /\ ~eSigned
        /\ ~eSubmitted
        /\ ePc = "done" => eResult = "false"

\* C18: a sell that read a zero or absent wallet balance has ended without signing
\* or submitting, never with true: the AMM-V4 sell with false, the bonding-curve
\* sell with its 'no value' result.
C18_NoBalanceNoSubmit ==
    (eOp = "sell" /\ eBalance \in {"zero", "absent"}) =>
        /\ ~eSigned
        /\ ~eSubmitted
        /\ ePc = "done"
        /\ eResult # "true"
        /\ eEngine = "ammV4" => eResult = "false"
        /\ eEngine = "pump" => eResult = "null"

C18_Witness ==
    /\ eOp = "sell"
    /\ eEngine = "pump"
    /\ eBalance = "absent"
    /\ eResult = "null"

\* C19: a bonding-curve buy whose coin data is missing, or whose curve is complete,
\* has ended with false without building, signing or submitting anything.
C19_CompleteCurveNotBought ==
    (eEngine = "pump" /\ eOp = "buy" /\ ePool \in {"complete", "noValue"}) =>
        /\ ~eBuilt
        /\ ~eSigned
        /\ ~eSubmitted
        /\ ePc = "done"
        /\ eResult = "false"

C19_Witness ==
    /\ eEngine = "pump"
    /\ eOp = "buy"
    /\ ePool = "complete"
    /\ eResult = "false"

(***************************************************************************)
(* Properties of fetchPairAddressFromRpc (checked under SpecPair)          *)
(***************************************************************************)
\* A scan that found nothing or raised.
Empty(scan) == scan.outcome.raised \/ scan.outcome.count = 0

\* C20: the first scan filters on (mint, quote mint); a second scan is made exactly
\* when the first found nothing or raised, with the two values swapped; there is no
\* third scan; the call returns the accounts of its last scan.
C20_SwappedRetryOnce ==
    /\ Len(pScans) <= 2
    /\ pPc = "first" <=> Len(pScans) = 0
    /\ Len(pScans) >= 1 =>
         /\ pScans[1].filters.first.bytes = pMint
         /\ pScans[1].filters.second.bytes = DEFAULT_QUOTE_MINT
         /\ pPc = "second" => Empty(pScans[1])
    /\ Len(pScans) = 2 =>
         /\ Empty(pScans[1])
         /\ pScans[2].filters.first.bytes = DEFAULT_QUOTE_MINT
         /\ pScans[2].filters.second.bytes = pMint
         /\ pScans[2].filters.first.offset = pScans[1].filters.first.offset
         /\ pScans[2].filters.second.offset = pScans[1].filters.second.offset
    /\ pPc = "done" =>
         /\ Len(pScans) = (IF Empty(pScans[1]) THEN 2 ELSE 1)
         /\ Len(pResult) = (IF Empty(pScans[Len(pScans)]) THEN 0
                            ELSE pScans[Len(pScans)].outcome.count)

C20_Witness ==
    /\ pPc = "done"
    /\ Len(pScans) = 2
    /\ pScans[1].outcome.raised
    /\ Len(pResult) = 1

(***************************************************************************)
(* C21: when the pool account or the market account is missing, or a       *)
(* decode or an RPC call fails during pool-key resolution of a raydium     *)
(* engine, the resolver returns no value (it does not throw) and the buy   *)
(* or sell ends there with false: no balance or reserve read follows, no   *)
(* instruction is built, nothing is signed and nothing is submitted.       *)
(***************************************************************************)
C21_NoPoolKeysReturnsFalse ==
    (eEngine # "pump" /\ ePoolEnv \in ResolveFailures) =>
        /\ ePool = "noValue"
        /\ ePc = "done"
        /\ eResult = "false"
        /\ eBalance = "unread"
        /\ eConfirm = "none"
        /\ ~eBuilt /\ ~eSigned /\ ~eSubmitted

C21_Witness ==
    /\ eEngine = "ammV4"
    /\ ePoolEnv = "marketMissing"
    /\ ePool = "noValue"
    /\ ePc = "done"
    /\ eResult = "false"

(***************************************************************************)
(* Pure helpers: one call is examined at a time (specification SpecCalc).  *)
(* `call` holds the function, its arguments, "called" | "returned" and the *)
(* result.                                                                 *)
(***************************************************************************)

\* ---- tick arrays (CLMM) ----
MIN_TICK == -443636
MAX_TICK == 443636
TICK_ARRAY_SIZE == 60

\* ticks -MaxTickSample .. MaxTickSample are examined one by one, the ticks around
\* the array boundaries of the larger spacings and the two ends of the range as well
MaxTickSample == 130

TickSpacings == {1, 10, 60}

TickSamples ==
    (-MaxTickSample .. MaxTickSample)
        \cup {MIN_TICK, MIN_TICK + 1, MAX_TICK - 1, MAX_TICK}
        \cup {-7200, -3601, -3600, -3599, -601, -600, -599, 599, 600, 601, 3599, 3600, 3601, 7200}

\* Math.floor(a / b) for b > 0
MathFloorDiv(a, b) == a \div b

\* a % b of JavaScript: the remainder has the sign of the dividend
Rem(a, b) == IF a >= 0 THEN a % b ELSE -((-a) % b)

\* export function tickCount(tickSpacing)
tickCount(tickSpacing) == TICK_ARRAY_SIZE * tickSpacing

\* export function getArrayStartIndex(tickIndex, tickSpacing)
getArrayStartIndex(tickIndex, tickSpacing) ==
    LET ticksInArray == tickCount(tickSpacing)
        start == MathFloorDiv(tickIndex, ticksInArray)
    IN (IF tickIndex < 0 /\ Rem(tickIndex, ticksInArray) # 0 THEN start - 1 ELSE start)
           * ticksInArray

TickCalls ==
    [fn : {"getArrayStartIndex"}, tickIndex : TickSamples, tickSpacing : TickSpacings,
     pc : {"called"}, result : {0}]

TickReturn ==
    /\ call.fn = "getArrayStartIndex"
    /\ call.pc = "called"
    /\ call' = [call EXCEPT !.pc = "returned",
                            !.result = getArrayStartIndex(call.tickIndex, call.tickSpacing)]
    /\ UNCHANGED <<ctVars, cfgVars, orchVars, connVars, engVars, pairVars>>

\* ---- UInt128 codecs (CPMM layouts) ----
\* A BN is held as its 16-bit digits, least significant first: a 128-bit value has
\* eight of them, a 64-bit word four.  A buffer is a sequence of bytes.
UInt128Codecs == {"blob", "nu64"}

\* the 128-bit values examined; among them 0, 1, 2^53, 2^64, 2^117 and 2^128 - 1
UInt128Samples ==
    {<<d1, d2, d3, d4, d5, d6, d7, d8>> :
        d1 \in {0, 1, 65535}, d2 \in {0, 65535}, d3 \in {0, 65535},
        d4 \in {0, 31, 32, 65535},
        d5 \in {0, 1, 65535}, d6 \in {0, 4660, 65535}, d7 \in {0, 43981, 65535},
        d8 \in {0, 31, 32, 65535}}

\* num.maskn(64)
maskn64(num) == SubSeq(num, 1, 4)

\* num.shrn(64)
shrn64(num) == SubSeq(num, 5, 8)

\* high.shln(64).add(low), for low < 2^64
shln64add(high, low) == low \o high

\* word.toArrayLike(Buffer, 'le', 8); layout.encode of nu64: two writeUInt32LE
toBytesLE(word) ==
    [i \in 1..8 |-> IF i % 2 = 1 THEN word[(i + 1) \div 2] % 256
                    ELSE word[i \div 2] \div 256]

\* new BN(bytes, 'le'); layout.decode of nu64: two readUInt32LE
fromBytesLE(bytes) == [i \in 1..4 |-> bytes[2 * i - 1] + 256 * bytes[2 * i]]

\* BN.toNumber() and new BN(number) accept 53 bits: the top digit of the word
\* holds bits 48..63
SafeNumber(word) == word[4] < 32

\* encode of the codec: the buffer, or thrown
encodeUInt128(codec, num) ==
    IF codec = "nu64" /\ ~(SafeNumber(shrn64(num)) /\ SafeNumber(maskn64(num)))
    THEN [thrown |-> TRUE, buffer |-> <<>>]
    ELSE [thrown |-> FALSE, buffer |-> toBytesLE(maskn64(num)) \o toBytesLE(shrn64(num))]

\* decode of the codec: the value, or thrown
decodeUInt128(codec, buffer) ==
    LET low == fromBytesLE(SubSeq(buffer, 1, 8))
        high == fromBytesLE(SubSeq(buffer, 9, 16))
    IN IF codec = "nu64" /\ ~(SafeNumber(high) /\ SafeNumber(low))
       THEN [thrown |-> TRUE, value |-> <<>>]
       ELSE [thrown |-> FALSE, value |-> shln64add(high, low)]

CodecCalls ==
    [fn : {"UInt128"}, codec : UInt128Codecs, value : UInt128Samples,
     pc : {"called"}, buffer : {<<>>}, result : {[thrown |-> FALSE, value |-> <<>>]}]

CodecEncode ==
    /\ call.fn = "UInt128"
    /\ call.pc = "called"
    /\ LET enc == encodeUInt128(call.codec, call.value)
       IN call' = IF enc.thrown
                  THEN [call EXCEPT !.pc = "returned",
                                    !.result = [thrown |-> TRUE, value |-> <<>>]]
                  ELSE [call EXCEPT !.pc = "encoded", !.buffer = enc.buffer]
    /\ UNCHANGED <<ctVars, cfgVars, orchVars, connVars, engVars, pairVars>>

CodecDecode ==
    /\ call.fn = "UInt128"
    /\ call.pc = "encoded"
    /\ call' = [call EXCEPT !.pc = "returned",
                            !.result = decodeUInt128(call.codec, call.buffer)]
    /\ UNCHANGED <<ctVars, cfgVars, orchVars, connVars, engVars, pairVars>>

\* ---- bonding-curve pricing ----
\* reserves and amounts 1 .. MaxAmount
MaxAmount == 5

Amounts == 1 .. MaxAmount

\* Math.round(num / den) for num >= 0, den > 0: halves go up
MathRound(num, den) == (2 * num + den) \div (2 * den)

\* export function solForTokens(solSpent, solReserves, tokenReserves)
solForTokens(solSpent, solReserves, tokenReserves) ==
    LET newSolReserves == solReserves + solSpent
        \* tokenReserves - (solReserves * tokenReserves) / newSolReserves, as a fraction
        tokenReceived == [num |-> tokenReserves * newSolReserves - solReserves * tokenReserves,
                          den |-> newSolReserves]
    IN MathRound(tokenReceived.num, tokenReceived.den)

\* export function tokensForSol(tokensToSell, solReserves, tokenReserves): the
\* result is not rounded; it is held as a fraction
tokensForSol(tokensToSell, solReserves, tokenReserves) ==
    LET newTokenReserves == tokenReserves + tokensToSell
    IN [num |-> solReserves * newTokenReserves - solReserves * tokenReserves,
        den |-> newTokenReserves]

PriceCalls ==
    [fn : {"pricing"}, solSpent : Amounts, solReserves : Amounts, tokenReserves : Amounts,
     pc : {"called"}, tokensOut : {0}, solOut : {[num |-> 0, den |-> 1]}]

PriceBuy ==
    /\ call.fn = "pricing"
    /\ call.pc = "called"
    /\ call' = [call EXCEPT !.pc = "bought",
                            !.tokensOut = solForTokens(call.solSpent, call.solReserves,
                                                       call.tokenReserves)]
    /\ UNCHANGED <<ctVars, cfgVars, orchVars, connVars, engVars, pairVars>>

PriceSell ==
    /\ call.fn = "pricing"
    /\ call.pc = "bought"
    /\ call' = [call EXCEPT !.pc = "returned",
                            !.solOut = tokensForSol(call.tokensOut, call.solReserves,
                                                    call.tokenReserves)]
    /\ UNCHANGED <<ctVars, cfgVars, orchVars, connVars, engVars, pairVars>>

\* ---- the feed filter of the 'message' handler ----
\* A wallet address is one symbol; a text is a sequence of symbols.  TRACK_WALLETS
\* is one address, or several addresses separated by "|".
TrackWalletsValues == {<<"W1">>, <<"W1", "|", "W2">>}

\* the addresses TRACK_WALLETS lists
TrackedWallets(trackWallets) ==
    {trackWallets[i] : i \in {j \in 1..Len(trackWallets) : trackWallets[j] # "|"}}

\* A feed message: its maker_address field ("absent" when the message has none),
\* the addresses found elsewhere in its text, protocol and type.
FeedMessages ==
    [maker : {"absent", "W1", "W2", "X"},
     elsewhere : {<<>>, <<"W1">>, <<"W2">>, <<"X">>, <<"X", "W1">>},
     protocol : {"Pump V1", "Raydium V4", "other"},
     type : {"buy", "sell", "none"}]

\* the addresses in the message text, in order
MessageText(m) == (IF m.maker = "absent" THEN <<>> ELSE <<m.maker>>) \o m.elsewhere

\* s.includes(p) of JavaScript: p occurs in s as one piece
StringIncludes(s, p) ==
    \E i \in 0..(Len(s) - Len(p)) : SubSeq(s, i + 1, i + Len(p)) = p

\* new RegExp(`.*(${trackWallets}).*`, 's').exec(msg): a match when one of the
\* alternatives of the group occurs in the text
RegexExec(trackWallets, text) ==
    \E w \in TrackedWallets(trackWallets) : StringIncludes(text, <<w>>)

\* Variant: the maker address is not compared with TRACK_WALLETS.
MakerPassesAlways(maker, trackWallets) == maker # "absent"

\* !(!maker_address || !maker_address.includes(trackWallets))
MakerPasses(maker, trackWallets) ==
    maker # "absent" /\ StringIncludes(<<maker>>, trackWallets)

\* ws.on('message'): what the handler starts for the message
onMessage(gated, trackWallets, m) ==
    IF gated THEN "none"
    ELSE IF ~RegexExec(trackWallets, MessageText(m)) THEN "none"
    ELSE IF ~MakerPasses(m.maker, trackWallets) THEN "none"
    ELSE Dispatch(m)

FeedCalls ==
    [fn : {"onMessage"}, gated : BOOLEAN, trackWallets : TrackWalletsValues,
     message : FeedMessages, pc : {"called"}, result : {"none"}]

FeedReturn ==
    /\ call.fn = "onMessage"
    /\ call.pc = "called"
    /\ call' = [call EXCEPT !.pc = "returned",
                            !.result = onMessage(call.gated, call.trackWallets, call.message)]
    /\ UNCHANGED <<ctVars, cfgVars, orchVars, connVars, engVars, pairVars>>

\* ---- sendPing (one call, started by the 'open' handler of its socket) ----
\* pings sent by one loop are counted up to MaxPings
MaxPings == 2

\* ws.readyState as the loop can see it
ReadyStates == {"open", "closing", "closed"}

\* ws.send on a socket that is not open: the library drops the data or throws
SendOutcomes(readyState) ==
    IF readyState = "open" THEN {"sent"} ELSE {"dropped", "throws"}

\* while (ws.readyState === WebSocket.OPEN)
PingLoopTest(readyState) == readyState = "open"

PingCalls ==
    [fn : {"sendPing"}, readyState : {"open"}, pc : {"test"}, pings : {0},
     sendState : {"none"}, sendOutcome : {"none"}]

\* the loop condition is evaluated
PingTest ==
    /\ call.fn = "sendPing"
    /\ call.pc = "test"
    /\ call' = [call EXCEPT !.pc = IF PingLoopTest(call.readyState) THEN "sleep" ELSE "done"]
    /\ UNCHANGED <<ctVars, cfgVars, orchVars, connVars, engVars, pairVars>>

\* await sleep(25000) is over: ws.send(pingPayload), whatever the socket's state
PingWake ==
    /\ call.fn = "sendPing"
    /\ call.pc = "sleep"
    /\ call.pings < MaxPings
    /\ \E o \in SendOutcomes(call.readyState) :
         call' = [call EXCEPT !.pc = IF o = "throws" THEN "done" ELSE "test",
                              !.pings = call.pings + 1,
                              !.sendState = call.readyState,
                              !.sendOutcome = o]
    /\ UNCHANGED <<ctVars, cfgVars, orchVars, connVars, engVars, pairVars>>

\* the socket starts closing, or finishes closing, while the loop is alive
PingSocketCloses ==
    /\ call.fn = "sendPing"
    /\ call.pc # "done"
    /\ call.readyState # "closed"
    /\ call' = [call EXCEPT !.readyState = IF call.readyState = "open" THEN "closing"
                                           ELSE "closed"]
    /\ UNCHANGED <<ctVars, cfgVars, orchVars, connVars, engVars, pairVars>>

\* ---- the instruction list of a buy or sell transaction (AMM-V4, CPMM, CLMM) ----
PoolEngines == {"ammV4", "cpmm", "clmm"}

\* the instructions every buy and sell starts with
BudgetAndWsol ==
    <<"setComputeUnitLimit", "setComputeUnitPrice", "createWsolAccount", "initWsolAccount">>

\* Variant: the associated token account is created whether or not one exists.
buyInstructionsAlwaysCreate(engine, tokenAccounts) ==
    BudgetAndWsol \o <<"createTokenAccount", "swap", "closeWsolAccount">>

\* buy: const instructions = [...]; if (createTokenAccountInstruction) push;
\* push(swapInstruction); push(closeWsolAccountIx).  `tokenAccounts` is the number
\* of accounts getTokenAccountsByOwner returned.
buyInstructions(engine, tokenAccounts) ==
    BudgetAndWsol
        \o (IF tokenAccounts > 0 THEN <<>> ELSE <<"createTokenAccount">>)
        \o <<"swap", "closeWsolAccount">>

\* Variant: the token account is closed for every percentage.
sellInstructionsAlwaysClose(engine, percentage) ==
    BudgetAndWsol \o <<"swap", "closeWsolAccount", "closeTokenAccount">>

\* sell: const instructions = [..., swap, closeWsolAccountIx];
\* if (percentage === 100) push(closeTokenAccountIx)
sellInstructions(engine, percentage) ==
    BudgetAndWsol \o <<"swap", "closeWsolAccount">>
        \o (IF percentage = 100 THEN <<"closeTokenAccount">> ELSE <<>>)

\* The calls that reach the building of the list: the AMM-V4 sell has returned
\* before for a percentage outside 1..100.
BuildCalls ==
    {c \in [fn : {"buildInstructions"}, engine : PoolEngines, op : Ops,
            percentage : Percentages, tokenAccounts : 0..MaxAccounts,
            pc : {"called"}, result : {<<>>}] :
        ~(c.engine = "ammV4" /\ c.op = "sell" /\ OutOfRange(c.percentage))}

BuildReturn ==
    /\ call.fn = "buildInstructions"
    /\ call.pc = "called"
    /\ call' = [call EXCEPT !.pc = "returned",
                            !.result = IF call.op = "buy"
                                       THEN buyInstructions(call.engine, call.tokenAccounts)
                                       ELSE sellInstructions(call.engine, call.percentage)]
    /\ UNCHANGED <<ctVars, cfgVars, orchVars, connVars, engVars, pairVars>>

\* ---- the swap instruction of the CPMM and CLMM engines ----
Directions == {"BUY", "SELL"}

\* what the pool holds as token 0 and as token 1: wrapped SOL is one of the two
WsolSides == {0, 1}

\* the vault or mint of pool side `side` in a pool whose wrapped-SOL side is wsolSide
PoolSide(wsolSide, side) == IF side = wsolSide THEN "wsol" ELSE "token"

\* makeCpmmSwapInstruction / makeClmmSwapInstruction: the input and output vault
\* and mint put into the account list
makeSwapInstruction(engine, action, wsolSide) ==
    IF action = "BUY"
    THEN [inputVault |-> PoolSide(wsolSide, 0), outputVault |-> PoolSide(wsolSide, 1),
          inputMint |-> PoolSide(wsolSide, 0), outputMint |-> PoolSide(wsolSide, 1)]
    ELSE [inputVault |-> PoolSide(wsolSide, 1), outputVault |-> PoolSide(wsolSide, 0),
          inputMint |-> PoolSide(wsolSide, 1), outputMint |-> PoolSide(wsolSide, 0)]

SwapCalls ==
    [fn : {"makeSwapInstruction"}, engine : {"cpmm", "clmm"}, action : Directions,
     wsolSide : WsolSides, pc : {"called"},
     result : {[inputVault |-> "none", outputVault |-> "none",
                inputMint |-> "none", outputMint |-> "none"]}]

SwapReturn ==
    /\ call.fn = "makeSwapInstruction"
    /\ call.pc = "called"
    /\ call' = [call EXCEPT !.pc = "returned",
                            !.result = makeSwapInstruction(call.engine, call.action,
                                                           call.wsolSide)]
    /\ UNCHANGED <<ctVars, cfgVars, orchVars, connVars, engVars, pairVars>>

\* ---- tick-array bitmaps (CLMM) ----
\* A bitmap (bigint) is held as the set of the positions of its 1 bits.
TICK_ARRAY_BITMAP_SIZE == 512
TOTAL_BITS == 1024

\* Math.abs
Abs(x) == IF x < 0 THEN -x ELSE x

\* the inline bitmaps examined by checkCurrentTickArrayIsInitialized: every
\* combination of the bits around the middle of the bitmap
CheckBitmaps == SUBSET {510, 511, 512}

\* export function checkCurrentTickArrayIsInitialized(bitMap, tickCurrent, tickSpacing)
checkCurrentTickArrayIsInitialized(bitMap, tickCurrent, tickSpacing) ==
    LET multiplier == tickSpacing * TICK_ARRAY_SIZE
        floored == MathFloorDiv(tickCurrent, multiplier) + 512
        compressed == IF tickCurrent < 0 /\ Rem(tickCurrent, multiplier) # 0
                      THEN floored - 1 ELSE floored
        bitPos == Abs(compressed)
    IN [initialized |-> bitPos \in bitMap,
        resultTick |-> (compressed - 512) * multiplier,
        bitPos |-> bitPos]

CheckCalls ==
    [fn : {"checkCurrentTickArrayIsInitialized"}, bitMap : CheckBitmaps,
     tickCurrent : TickSamples, tickSpacing : TickSpacings, pc : {"called"},
     result : {[initialized |-> FALSE, resultTick |-> 0, bitPos |-> 0]}]

CheckReturn ==
    /\ call.fn = "checkCurrentTickArrayIsInitialized"
    /\ call.pc = "called"
    /\ call' = [call EXCEPT !.pc = "returned",
                            !.result = checkCurrentTickArrayIsInitialized(
                                           call.bitMap, call.tickCurrent, call.tickSpacing)]
    /\ UNCHANGED <<ctVars, cfgVars, orchVars, connVars, engVars, pairVars>>

\* ---- search for the next initialized tick array (CLMM) ----
\* A list of 64-bit words is held as the set of its 1 bits, each a record
\* [word, bit]; an extension is the set of the 1 bits of its segments, each a
\* record [side, segment, word, bit].
EXTENSION_TICKARRAY_BITMAP_SIZE == 14

\* the largest and the smallest element of a non-empty set of integers
MaxOf(S) == CHOOSE x \in S : \A y \in S : y <= x
MinOf(S) == CHOOSE x \in S : \A y \in S : x <= y

\* function u1024FromList(words): words[i] << (64 * i)
u1024FromList(words) == {64 * w.word + w.bit : w \in words}

\* function maxTickInTickarrayBitmap(tickSpacing)
maxTickInTickarrayBitmap(tickSpacing) ==
    tickSpacing * TICK_ARRAY_SIZE * TICK_ARRAY_BITMAP_SIZE

\* x << n masked to width bits (n >= 0)
ShiftLeft(x, n, width) == {b + n : b \in {c \in x : c + n < width}}

\* x >> n (n >= 0)
ShiftRight(x, n) == {b - n : b \in {c \in x : c >= n}}

\* export function mostSignificantBit(x): null for 0, else
\* TOTAL_BITS - x.toString(2).length
mostSignificantBit(x) ==
    IF x = {} THEN [isNull |-> TRUE, bit |-> 0]
    ELSE [isNull |-> FALSE, bit |-> TOTAL_BITS - (MaxOf(x) + 1)]

\* export function leastSignificantBit(x): null for 0, else
\* (x & -x).toString(2).length - 1
leastSignificantBit(x) ==
    IF x = {} THEN [isNull |-> TRUE, bit |-> 0]
    ELSE [isNull |-> FALSE, bit |-> MinOf(x)]

\* export function nextInitializedTickArrayStartIndexInBitmap(bitMap,
\*     lastTickArrayStartIndex, tickSpacing, zeroForOne)
nextInitializedTickArrayStartIndexInBitmap(bitMap, lastTickArrayStartIndex, tickSpacing, zeroForOne) ==
    LET tickBoundary == maxTickInTickarrayBitmap(tickSpacing)
        nextTickArrayStartIndex ==
            IF zeroForOne THEN lastTickArrayStartIndex - tickCount(tickSpacing)
            ELSE lastTickArrayStartIndex + tickCount(tickSpacing)
        multiplier == tickSpacing * TICK_ARRAY_SIZE
        floored == MathFloorDiv(nextTickArrayStartIndex, multiplier) + 512
        compressed == IF nextTickArrayStartIndex < 0
                         /\ Rem(nextTickArrayStartIndex, multiplier) # 0
                      THEN floored - 1 ELSE floored
        bitPos == Abs(compressed)
        msb == mostSignificantBit(ShiftLeft(bitMap, TOTAL_BITS - bitPos - 1, TOTAL_BITS))
        lsb == leastSignificantBit(ShiftRight(bitMap, bitPos))
    IN IF nextTickArrayStartIndex < -tickBoundary \/ nextTickArrayStartIndex >= tickBoundary
       THEN [found |-> FALSE, startIndex |-> lastTickArrayStartIndex]
       ELSE IF zeroForOne
       THEN IF ~msb.isNull
            THEN [found |-> TRUE, startIndex |-> (bitPos - msb.bit - 512) * multiplier]
            ELSE [found |-> FALSE, startIndex |-> -tickBoundary]
       ELSE IF ~lsb.isNull
            THEN [found |-> TRUE, startIndex |-> (bitPos + lsb.bit - 512) * multiplier]
            ELSE [found |-> FALSE, startIndex |-> tickBoundary - tickCount(tickSpacing)]

\* export function getBitmap(tickIndex, tickSpacing, positiveBitmap, negativeBitmap):
\* the segment's index and the segment, undefined when the index is not 0..13
getBitmap(tickIndex, tickSpacing, extension) ==
    LET ticksInOneBitmap == tickSpacing * TICK_ARRAY_SIZE * TICK_ARRAY_BITMAP_SIZE
        first == MathFloorDiv(Abs(tickIndex), ticksInOneBitmap) - 1
        offset == IF tickIndex < 0 /\ Abs(tickIndex) % ticksInOneBitmap = 0
                  THEN first - 1 ELSE first
        side == IF tickIndex < 0 THEN "negative" ELSE "positive"
    IN [offset |-> offset,
        defined |-> offset \in 0 .. (EXTENSION_TICKARRAY_BITMAP_SIZE - 1),
        words |-> {[word |-> e.word, bit |-> e.bit] :
                      e \in {x \in extension : x.side = side /\ x.segment = offset}}]

\* calcTickArrayOffsetInBitmap of nextInitializedTickArrayInBitmap
calcTickArrayOffsetInBitmap(tickArrayStartIndex, tickSpacing) ==
    LET m == Abs(tickArrayStartIndex)
                 % (tickSpacing * TICK_ARRAY_SIZE * TICK_ARRAY_BITMAP_SIZE)
        tickArrayOffset == MathFloorDiv(m, TICK_ARRAY_SIZE * tickSpacing)
    IN IF tickArrayStartIndex < 0 /\ m # 0
       THEN TICK_ARRAY_BITMAP_SIZE - tickArrayOffset ELSE tickArrayOffset

\* a segment boundary that does not move the search position on
getBitmapTickBoundaryStuck(tickArrayStartIndex, tickSpacing) ==
    [min |-> tickArrayStartIndex + tickCount(tickSpacing), max |-> tickArrayStartIndex]

\* getBitmapTickBoundary of nextInitializedTickArrayInBitmap
getBitmapTickBoundary(tickArrayStartIndex, tickSpacing) ==
    LET ticksInOneBitmap == tickSpacing * TICK_ARRAY_SIZE * TICK_ARRAY_BITMAP_SIZE
        floored == MathFloorDiv(Abs(tickArrayStartIndex), ticksInOneBitmap)
        m == IF tickArrayStartIndex < 0 /\ Abs(tickArrayStartIndex) % ticksInOneBitmap # 0
             THEN floored + 1 ELSE floored
        minValue == ticksInOneBitmap * m
    IN IF tickArrayStartIndex < 0
       THEN [min |-> -minValue, max |-> -minValue + ticksInOneBitmap]
       ELSE [min |-> minValue, max |-> minValue + ticksInOneBitmap]

\* the 512-bit value rebuilt from a segment: tickarrayBitmap[i] << ((7 - i) * 64)
u512FromWords(words) == {(7 - w.word) * 64 + w.bit : w \in words}

\* export function nextInitializedTickArrayInBitmap(tickarrayBitmap,
\*     nextTickArrayStartIndex, tickSpacing, zeroForOne)
nextInitializedTickArrayInBitmap(tickarrayBitmap, nextTickArrayStartIndex, tickSpacing, zeroForOne) ==
    LET boundary == getBitmapTickBoundary(nextTickArrayStartIndex, tickSpacing)
        tickArrayOffsetInBitmap ==
            calcTickArrayOffsetInBitmap(nextTickArrayStartIndex, tickSpacing)
        u512 == u512FromWords(tickarrayBitmap)
        high == ShiftLeft(u512, TICK_ARRAY_BITMAP_SIZE - 1 - tickArrayOffsetInBitmap,
                          TICK_ARRAY_BITMAP_SIZE)
        low == ShiftRight(u512, tickArrayOffsetInBitmap)
    IN IF zeroForOne
       THEN IF high # {}
            THEN [found |-> TRUE,
                  startIndex |-> nextTickArrayStartIndex
                      - (TICK_ARRAY_BITMAP_SIZE - (MaxOf(high) + 1)) * tickCount(tickSpacing)]
            ELSE [found |-> FALSE, startIndex |-> boundary.min]
       ELSE IF low # {}
            THEN [found |-> TRUE,
                  startIndex |-> nextTickArrayStartIndex + MinOf(low) * tickCount(tickSpacing)]
            ELSE [found |-> FALSE, startIndex |-> boundary.max - tickCount(tickSpacing)]

\* export function nextInitializedTickArrayFromOneBitmap(lastTickArrayStartIndex,
\*     tickSpacing, zeroForOne, tickarrayBitmapExtension); indexed is the segment
\* index handed to the extension's arrays, if any; reading .length of an
\* undefined segment throws
nextInitializedTickArrayFromOneBitmap(lastTickArrayStartIndex, tickSpacing, zeroForOne, extension) ==
    LET multiplier == tickCount(tickSpacing)
        nextTickArrayStartIndex ==
            IF zeroForOne THEN lastTickArrayStartIndex - multiplier
            ELSE lastTickArrayStartIndex + multiplier
        minTickArrayStartIndex == getArrayStartIndex(MIN_TICK, tickSpacing)
        maxTickArrayStartIndex == getArrayStartIndex(MAX_TICK, tickSpacing)
        segment == getBitmap(nextTickArrayStartIndex, tickSpacing, extension)
        inSegment == nextInitializedTickArrayInBitmap(segment.words,
                         nextTickArrayStartIndex, tickSpacing, zeroForOne)
    IN IF nextTickArrayStartIndex < minTickArrayStartIndex
          \/ nextTickArrayStartIndex > maxTickArrayStartIndex
       THEN [throws |-> FALSE, found |-> FALSE, startIndex |-> nextTickArrayStartIndex,
             indexed |-> {}]
       ELSE IF ~segment.defined
       THEN [throws |-> TRUE, found |-> FALSE, startIndex |-> nextTickArrayStartIndex,
             indexed |-> {segment.offset}]
       ELSE [throws |-> FALSE, found |-> inSegment.found,
             startIndex |-> inSegment.startIndex, indexed |-> {segment.offset}]

\* the inline bitmaps searched: the two ends and the two middle bits of the
\* 1024-bit value (word 0 bit 0, word 7 bit 63, word 8 bit 0, word 15 bit 63)
SearchBitmaps ==
    LET lowest == [word |-> 0, bit |-> 0]
        belowZero == [word |-> 7, bit |-> 63]
        atZero == [word |-> 8, bit |-> 0]
        highest == [word |-> 15, bit |-> 63]
    IN {{}, {belowZero}, {atZero}, {belowZero, atZero}, {lowest, highest}}

\* the extensions searched: empty, or one initialized array at an end of a
\* segment or inside one
SearchExtensions ==
    LET entry(side, segment, word, bit) ==
            [side |-> side, segment |-> segment, word |-> word, bit |-> bit]
    IN {{}, {entry("positive", 0, 7, 0)}, {entry("negative", 0, 0, 63)},
        {entry("positive", 0, 0, 63)}, {entry("negative", 0, 7, 0)},
        {entry("positive", 1, 7, 4)},
        {entry("positive", EXTENSION_TICKARRAY_BITMAP_SIZE - 1, 7, 0)},
        {entry("negative", EXTENSION_TICKARRAY_BITMAP_SIZE - 1, 0, 63)}}

\* the starting indexes: the ends of the tick range, ticks around 0 and around
\* the ends of the inline bitmap and of the first extension segments of spacing 1
SearchStarts ==
    LET inline == maxTickInTickarrayBitmap(1)
    IN {MIN_TICK, MAX_TICK, 0, -1, inline - TICK_ARRAY_SIZE, inline, -inline,
        -inline - 1, 2 * inline + 4 * TICK_ARRAY_SIZE,
        -2 * inline - TICK_ARRAY_SIZE}

SearchCalls ==
    [fn : {"nextInitializedTickArrayStartIndex"},
     tickArrayBitmap : SearchBitmaps, tickarrayBitmapExtension : SearchExtensions,
     start : SearchStarts, tickSpacing : TickSpacings, zeroForOne : BOOLEAN,
     lastTickArrayStartIndex : {0}, indexed : {{}},
     pc : {"called"}, result : {0}]

\* lastTickArrayStartIndex = getArrayStartIndex(lastTickArrayStartIndex, tickSpacing)
SearchEnter ==
    /\ call.fn = "nextInitializedTickArrayStartIndex"
    /\ call.pc = "called"
    /\ call' = [call EXCEPT !.pc = "loop",
                            !.lastTickArrayStartIndex =
                                getArrayStartIndex(call.start, call.tickSpacing)]
    /\ UNCHANGED <<ctVars, cfgVars, orchVars, connVars, engVars, pairVars>>

\* one pass of the while (true) loop of nextInitializedTickArrayStartIndex (its
\* iteration counter is never read and is left out)
SearchIterate ==
    /\ call.fn = "nextInitializedTickArrayStartIndex"
    /\ call.pc = "loop"
    /\ LET inBitmap == nextInitializedTickArrayStartIndexInBitmap(
                           u1024FromList(call.tickArrayBitmap),
                           call.lastTickArrayStartIndex, call.tickSpacing, call.zeroForOne)
           fromOne == nextInitializedTickArrayFromOneBitmap(
                          inBitmap.startIndex, call.tickSpacing, call.zeroForOne,
                          call.tickarrayBitmapExtension)
       IN call' =
            IF inBitmap.found
            THEN [call EXCEPT !.pc = "returned", !.result = inBitmap.startIndex]
            ELSE IF fromOne.throws
            THEN [call EXCEPT !.pc = "throws",
                              !.lastTickArrayStartIndex = inBitmap.startIndex,
                              !.indexed = @ \cup fromOne.indexed]
            ELSE IF fromOne.found
            THEN [call EXCEPT !.pc = "returned",
                              !.lastTickArrayStartIndex = inBitmap.startIndex,
                              !.indexed = @ \cup fromOne.indexed,
                              !.result = fromOne.startIndex]
            ELSE [call EXCEPT !.pc = IF fromOne.startIndex < MIN_TICK
                                        \/ fromOne.startIndex > MAX_TICK
                                     THEN "null" ELSE "loop",
                              !.lastTickArrayStartIndex = fromOne.startIndex,
                              !.indexed = @ \cup fromOne.indexed]
    /\ UNCHANGED <<ctVars, cfgVars, orchVars, connVars, engVars, pairVars>>

CalcInit ==
    /\ call \in TickCalls \cup CodecCalls \cup PriceCalls \cup FeedCalls \cup PingCalls \cup BuildCalls \cup SwapCalls \cup CheckCalls
    \* the orchestrator is at rest
    /\ allowRebuy = TRUE
    /\ maxBuyAttempts = 0
    /\ maxSolSpend = 0
    /\ solIn = 1
    /\ buyList = {}
    /\ spent = 0
    /\ hPc = [h \in Handlers |-> "idle"]
    /\ hAddr = [h \in Handlers |-> "mintA"]
    /\ hAttempts = [h \in Handlers |-> 0]
    /\ hGated = [h \in Handlers |-> FALSE]
    /\ hSignal = [h \in Handlers |-> "none"]
    /\ hCalls = [h \in Handlers |-> 0]
    /\ hLast = [h \in Handlers |-> "none"]
    /\ hAdded = [h \in Handlers |-> 0]
    /\ buyCalls = [a \in Addresses |-> 0]
    /\ trueBuys = 0
    /\ msgCount = 0
    \* no confirmTxn call is modelled in this specification
    /\ ctImpl = "raydium"
    /\ ctMaxRetries = 0
    /\ ctRetries = InitialRetries
    /\ ctPc = "done"
    /\ ctResult = "none"
    /\ ctHist = <<>>
    \* the session is streaming on its first websocket
    /\ mainPc = "waitClose"
    /\ wsState = "open"
    /\ wsCount = 1
    /\ refreshing = 0
    /\ sleeping = 0
    /\ terminated = FALSE
    /\ balanceLoops = 1
    /\ refreshFails = 0
    \* no engine call is in progress
    /\ eEngine = "ammV4"
    /\ eOp = "buy"
    /\ ePct = 100
    /\ ePc = "done"
    /\ eResult = "false"
    /\ ePool = "unread"
    /\ ePoolEnv = "none"
    /\ eBalance = "unread"
    /\ eConfirm = "none"
    /\ eBuilt = FALSE
    /\ eSigned = FALSE
    /\ eSubmitted = FALSE
    \* no pair-address scan is in progress
    /\ pProgram = "ammV4"
    /\ pMint = "mintA"
    /\ pPc = "done"
    /\ pScans = <<>>
    /\ pResult = <<>>

CalcNext ==
    \/ TickReturn
    \/ CodecEncode
    \/ CodecDecode
    \/ PriceBuy
    \/ PriceSell
    \/ FeedReturn
    \/ PingTest
    \/ PingWake
    \/ PingSocketCloses
    \/ BuildReturn
    \/ SwapReturn
    \/ CheckReturn

SpecCalc == CalcInit /\ [][CalcNext]_vars

\* ---- the search for the next initialized tick array, on its own ----
SearchInit ==
    /\ call \in SearchCalls
    \* the orchestrator is at rest
    /\ allowRebuy = TRUE
    /\ maxBuyAttempts = 0
    /\ maxSolSpend = 0
    /\ solIn = 1
    /\ buyList = {}
    /\ spent = 0
    /\ hPc = [h \in Handlers |-> "idle"]
    /\ hAddr = [h \in Handlers |-> "mintA"]
    /\ hAttempts = [h \in Handlers |-> 0]
    /\ hGated = [h \in Handlers |-> FALSE]
    /\ hSignal = [h \in Handlers |-> "none"]
    /\ hCalls = [h \in Handlers |-> 0]
    /\ hLast = [h \in Handlers |-> "none"]
    /\ hAdded = [h \in Handlers |-> 0]
    /\ buyCalls = [a \in Addresses |-> 0]
    /\ trueBuys = 0
    /\ msgCount = 0
    \* no confirmTxn call is modelled in this specification
    /\ ctImpl = "raydium"
    /\ ctMaxRetries = 0
    /\ ctRetries = InitialRetries
    /\ ctPc = "done"
    /\ ctResult = "none"
    /\ ctHist = <<>>
    \* the session is streaming on its first websocket
    /\ mainPc = "waitClose"
    /\ wsState = "open"
    /\ wsCount = 1
    /\ refreshing = 0
    /\ sleeping = 0
    /\ terminated = FALSE
    /\ balanceLoops = 1
    /\ refreshFails = 0
    \* no engine call is in progress
    /\ eEngine = "ammV4"
    /\ eOp = "buy"
    /\ ePct = 100
    /\ ePc = "done"
    /\ eResult = "false"
    /\ ePool = "unread"
    /\ ePoolEnv = "none"
    /\ eBalance = "unread"
    /\ eConfirm = "none"
    /\ eBuilt = FALSE
    /\ eSigned = FALSE
    /\ eSubmitted = FALSE
    \* no pair-address scan is in progress
    /\ pProgram = "ammV4"
    /\ pMint = "mintA"
    /\ pPc = "done"
    /\ pScans = <<>>
    /\ pResult = <<>>

SearchNext ==
    \/ SearchEnter
    \/ SearchIterate

\* the search loop is synchronous code: once entered it keeps running
SpecSearch ==
    /\ SearchInit
    /\ [][SearchNext]_vars
    /\ WF_vars(SearchEnter) /\ WF_vars(SearchIterate)

(***************************************************************************)
(* C22: for every tick in [MIN_TICK, MAX_TICK] and every positive spacing, *)
(* getArrayStartIndex returns the multiple s of 60 * spacing with          *)
(* s <= tick < s + 60 * spacing (floor toward negative infinity); a tick   *)
(* on an array boundary is its own start.                                  *)
(***************************************************************************)
C22_ArrayStartIsFloor ==
    (call.fn = "getArrayStartIndex" /\ call.pc = "returned") =>
        LET n == TICK_ARRAY_SIZE * call.tickSpacing
        IN /\ call.result % n = 0
           /\ call.result <= call.tickIndex
           /\ call.tickIndex < call.result + n

(***************************************************************************)
(* C23: in each of the two UInt128 codecs, encoding an unsigned 128-bit    *)
(* value as two little-endian 64-bit words (low word first) and decoding   *)
(* the bytes gives the value back.                                         *)
(***************************************************************************)
C23_UInt128RoundTrip ==
    (call.fn = "UInt128" /\ call.pc = "returned") =>
        /\ ~call.result.thrown
        /\ call.result.value = call.value

(***************************************************************************)
(* C24: for all positive reserves and every positive solSpent, selling     *)
(* solForTokens(solSpent, ...) tokens with tokensForSol at the same        *)
(* reserves gives strictly less than solSpent.                             *)
(***************************************************************************)
C24_SellBackBelowSpent ==
    (call.fn = "pricing" /\ call.pc = "returned") =>
        call.solOut.num < call.solSpent * call.solOut.den

(***************************************************************************)
(* C25: sellToken has no attempt cap.  After an underlying sell that       *)
(* returned false or raised, sellToken is in its loop again (asleep, with  *)
(* the next sell call enabled, or in that call), however many calls were   *)
(* made before; it has ended as soon as a sell returned true, and it ends  *)
(* only after a sell that returned a stopping result.                      *)
(***************************************************************************)
C25_SellRetriesUntilSold ==
    \A h \in Handlers :
        hSignal[h] = "sell" =>
            /\ hLast[h] \in {"false", "raise"} => hPc[h] \in {"sellSleep", "sellCall"}
            /\ hPc[h] = "sellSleep" => ENABLED SellLoopWake(h)
            /\ hLast[h] = "true" => hPc[h] = "done"
            /\ (hPc[h] = "done" /\ hCalls[h] > 0) => hLast[h] \in {"true", "noValue"}

C25_Witness ==
    \E h \in Handlers :
        /\ hSignal[h] = "sell"
        /\ hPc[h] = "sellCall"
        /\ hLast[h] = "false"

(***************************************************************************)
(* C26: a feed message whose maker address is absent or is not one of the  *)
(* tracked wallets triggers no buy and no sell, also when a tracked        *)
(* wallet's address occurs elsewhere in the message, for TRACK_WALLETS     *)
(* naming one address and for TRACK_WALLETS listing several.               *)
(***************************************************************************)
C26_UntrackedMakerNoTrade ==
    (/\ call.fn = "onMessage"
     /\ call.pc = "returned"
     /\ call.message.maker \notin TrackedWallets(call.trackWallets)) =>
        call.result = "none"

C26_Witness ==
    /\ call.fn = "onMessage"
    /\ call.pc = "returned"
    /\ ~call.gated
    /\ call.message.maker = "X"
    /\ call.message.elsewhere = <<"X", "W1">>
    /\ call.message.protocol = "Pump V1"
    /\ call.message.type = "buy"
    /\ call.result = "none"

(***************************************************************************)
(* C27: a socket error puts that socket into closing, and a closing socket *)
(* stays so until its close event, which can always come while the process *)
(* has not been terminated by a failed refresh; every close event is       *)
(* followed, in the same turn of the event loop, by the next connection    *)
(* attempt of connect (a new websocket, or the attempt that throws and     *)
(* ends connect), however many websockets were made before.                *)
(***************************************************************************)
C27_ErrorClosesCloseReconnects ==
    /\ [][SocketError => wsState' = "closing"]_vars
    /\ [][wsState = "closing" => (wsState' = "closing" \/ SocketClose)]_vars
    /\ []((wsState = "closing" /\ ~terminated /\ wsCount < MaxSockets)
             => ENABLED SocketClose)
    /\ [][SocketClose => (wsCount' = wsCount + 1 \/ mainPc' = "exited")]_vars

C27_Witness ==
    /\ wsCount = MaxSockets
    /\ wsState = "closing"
    /\ ~terminated

(***************************************************************************)
(* C28: the spend gate is read once, when the message arrives.  A buy that *)
(* ends well adds SOL_IN to spend whatever spend has become since, so with *)
(* overlapping handlers spend passes MAX_SOL_SPEND + SOL_IN (witness); it  *)
(* stays below MAX_SOL_SPEND plus SOL_IN per concurrent handler.           *)
(***************************************************************************)
C28_GateReadOnlyOnArrival ==
    /\ [][\A h \in Handlers :
            (hPc[h] = "buyCall" /\ hPc'[h] = "done") => spent' = spent + solIn]_vars
    /\ [](\A h \in Handlers : hAdded[h] > 0 => ~hGated[h])
    /\ [](spent < maxSolSpend + Cardinality(Handlers) * solIn)

\* C28 witness: two buy signals passed the gate, both buys ended well, and spend
\* is MAX_SOL_SPEND + SOL_IN or more.
C28_Witness ==
    /\ maxSolSpend > 0
    /\ \A h \in Handlers :
         /\ hSignal[h] = "buy"
         /\ ~hGated[h]
         /\ hPc[h] = "done"
         /\ hAdded[h] = solIn
    /\ spent >= maxSolSpend + solIn

(***************************************************************************)
(* Signals handled one at a time: only one handler is ever in flight       *)
(* (specification SpecSerial).                                             *)
(***************************************************************************)
SerialNext ==
    \/ HandleMessage(1)
    \/ BuyLoopWake(1)
    \/ BuyReturns(1)
    \/ SellLoopWake(1)
    \/ SellReturns(1)

SpecSerial == Init /\ [][SerialNext]_vars

(***************************************************************************)
(* C29: when each message handler finishes before the next message is      *)
(* handled, spend is below MAX_SOL_SPEND + SOL_IN in every reachable       *)
(* state: an amount is added only by a run that started with spend below   *)
(* the maximum.                                                            *)
(***************************************************************************)
C29_SerialSpendBelowMaxPlusSolIn ==
    /\ spent < maxSolSpend + solIn
    /\ hAdded[1] > 0 => spent - hAdded[1] < maxSolSpend

\* C29 witness: one buy took spend from below the maximum to above it, and the
\* next buy signal was turned away.
C29_Witness ==
    /\ maxSolSpend > 0
    /\ spent > maxSolSpend
    /\ hGated[1]
    /\ hSignal[1] = "buy"
    /\ hPc[2] = "idle"

(***************************************************************************)
(* C30: within one process, across messages, closes, refreshes and         *)
(* reconnections, spend never decreases and no address leaves the          *)
(* bought-address list.                                                    *)
(***************************************************************************)
C30_SessionStateOnlyGrows ==
    [][spent' >= spent /\ buyList \subseteq buyList']_vars

\* C30 witness: an address was recorded and an amount spent, and the session is on
\* its last websocket with a close handler past its refresh.
C30_Witness ==
    /\ wsCount = MaxSockets
    /\ sleeping > 0
    /\ spent > 0
    /\ buyList # {}

(***************************************************************************)
(* Properties of the periodic tasks started by the 'open' handler          *)
(***************************************************************************)
\* C31: at most one balance-polling loop is active at any time, after any number of
\* closes and reconnections.  (getCurrentBalance is `while (true)` around calls that
\* do not throw, so every loop that was started is still active.)
C31_OneBalanceLoop == balanceLoops <= 1

(***************************************************************************)
(* C32: the keep-alive loop calls send only on a socket that is open at    *)
(* that moment: after a close during the 25-second wait no ping is sent.   *)
(***************************************************************************)
C32_PingOnlyWhenOpen ==
    call.fn = "sendPing" => call.sendState \in {"none", "open"}

(***************************************************************************)
(* Properties of the instruction lists (checked under SpecCalc)            *)
(***************************************************************************)
\* the positions of instruction `name` in the list
Positions(list, name) == {i \in 1..Len(list) : list[i] = name}

\* `first` occurs exactly once, and before every occurrence of `second`
Before(list, first, second) ==
    /\ Cardinality(Positions(list, first)) = 1
    /\ \A i \in Positions(list, first), j \in Positions(list, second) : i < j

\* C33: in every buy transaction of the AMM-V4, CPMM and CLMM engines the order is
\* compute-unit limit, compute-unit price, create wrapped-SOL account, initialize
\* it, create associated token account (present exactly when the wallet had no
\* token account for the mint), swap, close wrapped-SOL account.
C33_BuyInstructionOrder ==
    (call.fn = "buildInstructions" /\ call.pc = "returned" /\ call.op = "buy") =>
        LET list == call.result
        IN /\ SubSeq(list, 1, 4) = <<"setComputeUnitLimit", "setComputeUnitPrice",
                                     "createWsolAccount", "initWsolAccount">>
           /\ (Positions(list, "createTokenAccount") # {}) <=> (call.tokenAccounts = 0)
           /\ Positions(list, "createTokenAccount") \subseteq {5}
           /\ Len(list) = IF call.tokenAccounts = 0 THEN 7 ELSE 6
           /\ list[Len(list) - 1] = "swap"
           /\ list[Len(list)] = "closeWsolAccount"
           /\ Before(list, "createWsolAccount", "swap")
           /\ Before(list, "initWsolAccount", "swap")
           /\ Before(list, "swap", "closeWsolAccount")
           /\ \A i \in Positions(list, "createTokenAccount"),
                 j \in Positions(list, "swap") : i < j

C33_Witness ==
    /\ call.fn = "buildInstructions"
    /\ call.pc = "returned"
    /\ call.op = "buy"
    /\ call.engine = "clmm"
    /\ call.tokenAccounts = 0
    /\ call.result[5] = "createTokenAccount"

\* C34: a sell transaction of the AMM-V4, CPMM and CLMM engines holds a
\* close-token-account instruction exactly when percentage is 100, and then it is
\* the last instruction, after the swap and after the wrapped-SOL close.
C34_CloseTokenAccountAtHundred ==
    (call.fn = "buildInstructions" /\ call.pc = "returned" /\ call.op = "sell") =>
        LET list == call.result
        IN /\ (Positions(list, "closeTokenAccount") # {}) <=> (call.percentage = 100)
           /\ Positions(list, "closeTokenAccount") \subseteq {Len(list)}
           /\ Before(list, "swap", "closeTokenAccount")
           /\ Before(list, "closeWsolAccount", "closeTokenAccount")
           /\ Before(list, "swap", "closeWsolAccount")

C34_Witness ==
    /\ call.fn = "buildInstructions"
    /\ call.pc = "returned"
    /\ call.op = "sell"
    /\ call.engine = "cpmm"
    /\ call.percentage = 100
    /\ call.result[Len(call.result)] = "closeTokenAccount"

(***************************************************************************)
(* C35: in the CPMM and CLMM swap instruction of a BUY the input vault and *)
(* mint are the pool's wrapped-SOL side and the output vault and mint the  *)
(* token side, for a SELL the reverse, whether wrapped SOL is token 0 or   *)
(* token 1 of the pool.                                                    *)
(***************************************************************************)
C35_BuyIsSolInTokenOut ==
    (call.fn = "makeSwapInstruction" /\ call.pc = "returned") =>
        LET in == IF call.action = "BUY" THEN "wsol" ELSE "token"
            out == IF call.action = "BUY" THEN "token" ELSE "wsol"
        IN /\ call.result.inputVault = in /\ call.result.inputMint = in
           /\ call.result.outputVault = out /\ call.result.outputMint = out

(***************************************************************************)
(* Properties of the tick-array bitmap helpers (checked under SpecCalc)    *)
(***************************************************************************)
\* C36: for every tick whose array lies inside the inline bitmap's range and every
\* spacing, checkCurrentTickArrayIsInitialized tests bit
\* floor(tick / (spacing * 60)) + 512 (a position in 0..1023) and returns that bit's
\* value with the start index of the array that contains the tick.
C36_TestsBitOfContainingArray ==
    (call.fn = "checkCurrentTickArrayIsInitialized" /\ call.pc = "returned") =>
        LET n == call.tickSpacing * TICK_ARRAY_SIZE
            bit == (call.tickCurrent \div n) + 512
        IN bit \in 0..1023 =>
             /\ call.result.bitPos = bit
             /\ call.result.initialized = (bit \in call.bitMap)
             /\ call.result.resultTick = (call.tickCurrent \div n) * n

\* the start indexes of the arrays whose bit is set in the bitmaps handed to the
\* search: bit p of the inline bitmap is the array starting at (p - 512) arrays
\* from 0, bit p of positive segment k the array p arrays above the segment's
\* lower end (k + 1) * 512 arrays, bit p of negative segment k the array p
\* arrays above the segment's lower end -(k + 2) * 512 arrays
SearchInitialized ==
    LET m == tickCount(call.tickSpacing)
        inline == maxTickInTickarrayBitmap(call.tickSpacing)
    IN {(p - TICK_ARRAY_BITMAP_SIZE) * m : p \in u1024FromList(call.tickArrayBitmap)}
       \cup {(IF e.side = "positive" THEN (e.segment + 1) * inline
              ELSE -(e.segment + 2) * inline)
             + ((7 - e.word) * 64 + e.bit) * m : e \in call.tickarrayBitmapExtension}

\* the start index of the array that holds the starting index of the search
SearchStartArray ==
    MathFloorDiv(call.start, tickCount(call.tickSpacing)) * tickCount(call.tickSpacing)

(***************************************************************************)
(* C37: nextInitializedTickArrayStartIndex terminates for every inline     *)
(* bitmap, extension bitmap, starting index in [MIN_TICK, MAX_TICK], tick  *)
(* spacing and direction: every call ends by returning the start index of  *)
(* an initialized array or by reporting "not found", the latter only once  *)
(* the search position has passed MIN_TICK or MAX_TICK; no call throws and *)
(* no extension segment outside 0..13 is indexed.                          *)
(***************************************************************************)
C37_SearchTerminates ==
    /\ [](call.fn = "nextInitializedTickArrayStartIndex" =>
            /\ call.pc # "throws"
            /\ call.indexed \subseteq 0 .. (EXTENSION_TICKARRAY_BITMAP_SIZE - 1)
            /\ call.pc = "returned" => call.result \in SearchInitialized
            /\ call.pc = "null" =>
                   \/ call.lastTickArrayStartIndex < MIN_TICK
                   \/ call.lastTickArrayStartIndex > MAX_TICK)
    /\ (call.fn = "nextInitializedTickArrayStartIndex"
            ~> call.pc \in {"returned", "null"})

\* a search that crossed from the inline bitmap through extension segments and
\* ended with "not found" past the end of the tick range
C37_Witness ==
    /\ call.fn = "nextInitializedTickArrayStartIndex"
    /\ call.pc = "null"
    /\ call.tickSpacing = 1
    /\ call.indexed = 0 .. (EXTENSION_TICKARRAY_BITMAP_SIZE - 1)

(***************************************************************************)
(* C38: whenever nextInitializedTickArrayStartIndex returns a start index, *)
(* that index is a multiple of 60 * spacing, lies strictly below the       *)
(* starting array when zeroForOne is true and strictly above it otherwise, *)
(* its bit is set in the bitmap that was searched, and no array with a set *)
(* bit lies between the starting array and the returned one.               *)
(***************************************************************************)
C38_ReturnsNearestInitialized ==
    (call.fn = "nextInitializedTickArrayStartIndex" /\ call.pc = "returned") =>
        /\ call.result % tickCount(call.tickSpacing) = 0
        /\ IF call.zeroForOne THEN call.result < SearchStartArray
           ELSE call.result > SearchStartArray
        /\ call.result \in SearchInitialized
        /\ \A a \in SearchInitialized :
               IF call.zeroForOne THEN ~(call.result < a /\ a < SearchStartArray)
               ELSE ~(SearchStartArray < a /\ a < call.result)

\* ---- pool-state layouts ----
\* A struct layout is the sequence of its fields, each [property, span] with the
\* span in bytes: blob(n) is n, u8 1, u16 2, s32 4, nu64 8, uint64 blob(8),
\* UInt128Layout blob(16), seq(element, count) count times the element's span.
Field(property, span) == [property |-> property, span |-> span]

\* export const LIQUIDITY_STATE_LAYOUT_V4
LIQUIDITY_STATE_LAYOUT_V4 ==
    <<Field("status", 8), Field("nonce", 8), Field("orderNum", 8), Field("depth", 8),
      Field("coinDecimals", 8), Field("pcDecimals", 8), Field("state", 8),
      Field("resetFlag", 8), Field("minSize", 8), Field("volMaxCutRatio", 8),
      Field("amountWaveRatio", 8), Field("coinLotSize", 8), Field("pcLotSize", 8),
      Field("minPriceMultiplier", 8), Field("maxPriceMultiplier", 8),
      Field("systemDecimalsValue", 8), Field("minSeparateNumerator", 8),
      Field("minSeparateDenominator", 8), Field("tradeFeeNumerator", 8),
      Field("tradeFeeDenominator", 8), Field("pnlNumerator", 8),
      Field("pnlDenominator", 8), Field("swapFeeNumerator", 8),
      Field("swapFeeDenominator", 8), Field("needTakePnlCoin", 8),
      Field("needTakePnlPc", 8), Field("totalPnlPc", 8), Field("totalPnlCoin", 8),
      Field("poolOpenTime", 8), Field("punishPcAmount", 8),
      Field("punishCoinAmount", 8), Field("orderbookToInitTime", 8),
      Field("swapCoinInAmount", 16), Field("swapPcOutAmount", 16),
      Field("swapCoin2PcFee", 8), Field("swapPcInAmount", 16),
      Field("swapCoinOutAmount", 16), Field("swapPc2CoinFee", 8),
      Field("poolCoinTokenAccount", 32), Field("poolPcTokenAccount", 32),
      Field("coinMintAddress", 32), Field("pcMintAddress", 32),
      Field("lpMintAddress", 32), Field("ammOpenOrders", 32),
      Field("serumMarket", 32), Field("serumProgramId", 32),
      Field("ammTargetOrders", 32), Field("poolWithdrawQueue", 32),
      Field("poolTempLpTokenAccount", 32), Field("ammOwner", 32),
      Field("pnlOwner", 32)>>

\* export const CPMM_POOL_STATE_LAYOUT
CPMM_POOL_STATE_LAYOUT ==
    <<Field("padding", 8), Field("amm_config", 32), Field("pool_creator", 32),
      Field("token_0_vault", 32), Field("token_1_vault", 32), Field("lp_mint", 32),
      Field("token_0_mint", 32), Field("token_1_mint", 32),
      Field("token_0_program", 32), Field("token_1_program", 32),
      Field("observation_key", 32), Field("auth_bump", 1), Field("status", 1),
      Field("lp_mint_decimals", 1), Field("mint_0_decimals", 1),
      Field("mint_1_decimals", 1), Field("lp_supply", 8),
      Field("protocol_fees_token_0", 8), Field("protocol_fees_token_1", 8),
      Field("fund_fees_token_0", 8), Field("fund_fees_token_1", 8),
      Field("open_time", 8), Field("padding", 8 * 32)>>

\* export const CLMM_POOL_STATE_LAYOUT
CLMM_POOL_STATE_LAYOUT ==
    <<Field("padding", 8), Field("bump", 1), Field("amm_config", 32),
      Field("owner", 32), Field("token_mint_0", 32), Field("token_mint_1", 32),
      Field("token_vault_0", 32), Field("token_vault_1", 32),
      Field("observation_key", 32), Field("mint_decimals_0", 1),
      Field("mint_decimals_1", 1), Field("tick_spacing", 2), Field("liquidity", 16),
      Field("sqrt_price_x64", 16), Field("tick_current", 4),
      Field("observation_index", 2), Field("observation_update_duration", 2),
      Field("fee_growth_global_0_x64", 16), Field("fee_growth_global_1_x64", 16),
      Field("protocol_fees_token_0", 8), Field("protocol_fees_token_1", 8),
      Field("swap_in_amount_token_0", 16), Field("swap_out_amount_token_1", 16),
      Field("swap_in_amount_token_1", 16), Field("swap_out_amount_token_0", 16),
      Field("status", 1), Field("padding_before_bitmap", 7), Field("skipped", 507),
      Field("tick_array_bitmap", 8 * 16), Field("total_fees_token_0", 8),
      Field("total_fees_claimed_token_0", 8), Field("total_fees_token_1", 8),
      Field("total_fees_claimed_token_1", 8), Field("fund_fees_token_0", 8),
      Field("fund_fees_token_1", 8), Field("padding1", 8 * 26),
      Field("padding2", 8 * 32)>>

\* a pool-state layout that ends before its trailing field
PoolStateLayoutTruncated(program) ==
    LET layout == IF program = "ammV4" THEN LIQUIDITY_STATE_LAYOUT_V4
                  ELSE IF program = "cpmm" THEN CPMM_POOL_STATE_LAYOUT
                  ELSE CLMM_POOL_STATE_LAYOUT
    IN SubSeq(layout, 1, Len(layout) - 1)

\* the layout that decodes the pool accounts of a program
PoolStateLayout(program) ==
    IF program = "ammV4" THEN LIQUIDITY_STATE_LAYOUT_V4
    ELSE IF program = "cpmm" THEN CPMM_POOL_STATE_LAYOUT
    ELSE CLMM_POOL_STATE_LAYOUT

\* the two mint fields of each layout, in layout order
MintFields(program) ==
    IF program = "ammV4" THEN <<"coinMintAddress", "pcMintAddress">>
    ELSE IF program = "cpmm" THEN <<"token_0_mint", "token_1_mint">>
    ELSE <<"token_mint_0", "token_mint_1">>

RECURSIVE SumSpans(_, _)
\* the spans of the first n fields added up
SumSpans(layout, n) == IF n = 0 THEN 0 ELSE SumSpans(layout, n - 1) + layout[n].span

\* struct.span: the layout's total byte width
LayoutSpan(layout) == SumSpans(layout, Len(layout))

\* struct.offsetOf(property): the byte offset of a field, the spans before it
LayoutOffsetOf(layout, property) ==
    SumSpans(layout, (CHOOSE i \in 1 .. Len(layout) : layout[i].property = property) - 1)

(***************************************************************************)
(* C39: for each pool type the pair-discovery scan agrees with the         *)
(* pool-state layout: every scan's data-size filter equals the layout's    *)
(* total byte width and its two mint filter offsets equal the byte offsets *)
(* of the layout's two mint fields: classic AMM 752 / 400 / 432, CPMM      *)
(* 637 / 168 / 200, CLMM 1544 / 73 / 105.                                  *)
(***************************************************************************)
C39_ScanAgreesWithLayout ==
    /\ \A i \in 1 .. Len(pScans) :
         LET layout == PoolStateLayout(pProgram)
             filters == pScans[i].filters
         IN /\ filters.dataSize = LayoutSpan(layout)
            /\ filters.first.offset = LayoutOffsetOf(layout, MintFields(pProgram)[1])
            /\ filters.second.offset = LayoutOffsetOf(layout, MintFields(pProgram)[2])
    /\ LayoutSpan(PoolStateLayout("ammV4")) = 752
    /\ LayoutOffsetOf(PoolStateLayout("ammV4"), "coinMintAddress") = 400
    /\ LayoutOffsetOf(PoolStateLayout("ammV4"), "pcMintAddress") = 432
    /\ LayoutSpan(PoolStateLayout("cpmm")) = 637
    /\ LayoutOffsetOf(PoolStateLayout("cpmm"), "token_0_mint") = 168
    /\ LayoutOffsetOf(PoolStateLayout("cpmm"), "token_1_mint") = 200
    /\ LayoutSpan(PoolStateLayout("clmm")) = 1544
    /\ LayoutOffsetOf(PoolStateLayout("clmm"), "token_mint_0") = 73
    /\ LayoutOffsetOf(PoolStateLayout("clmm"), "token_mint_1") = 105

\* a CLMM discovery that made both scans
C39_Witness ==
    /\ pProgram = "clmm"
    /\ Len(pScans) = 2
    /\ pScans[2].filters.dataSize = 1544

====
